---- MODULE Spec2Model ----
(***************************************************************************)
(* A model of the launcher backend (summon): the storage substrate         *)
(* (storage_utils), the action dispatcher (action_manager), the script     *)
(* filter cache (action_manager/script_filter) and the search engine       *)
(* (search_engine).  Each subsystem has its own variables and its own      *)
(* specification; a specification leaves the other subsystems' variables   *)
(* at their initial values.                                                *)
(*                                                                         *)
(* Strings are sequences of one-character strings.  Byte blobs are         *)
(* sequences of integers.                                                  *)
(***************************************************************************)
EXTENDS Integers, Sequences, FiniteSets, TLC

(***************************************************************************)
(* Bounds of the model.                                                    *)
(***************************************************************************)
\* Items stored in a collection are 1..MaxItem.
MaxItem == 2
\* add / insert_at_front are not offered once the vector holds MaxLen items.
MaxLen == 2
\* Number of mutations of the vector per behaviour.
MaxOps == 2
\* Number of messages the writer's channel holds in the model (the channel
\* of the code is unbounded).
MaxChan == 1

\* Number of snapshots (Arcs returned by get_all) held at a time.
MaxSnaps == 1

\* Client threads that call into one RkyvStorage.
Clients == {"c1", "c2"}
Items == 1..MaxItem

\* Capacity of the script-filter LRU cache in the model (CACHE_SIZE, 100 in
\* script_filter.rs).
SCRIPT_CACHE_SIZE == 2
\* The clock advances in steps of TickMs up to MaxTime.
TickMs == 1000
MaxTime == 2000
\* Number of actions the dispatcher holds in the model.
MaxActions == 2

\* script_filter.rs
CACHE_TTL_MS == 2000
\* The scores of the results of search (f32 in the code).
QUICK_LINK_SCORE == 100
PATTERN_SCORE == 95
SCRIPT_ITEM_SCORE == 200
SCRIPT_ERROR_SCORE == 0

\* Capacity of the result cache of the search engine in the model
\* (CACHE_SIZE, 256 in search_engine/src/lib.rs).
SEARCH_CACHE_SIZE == 2
\* The limits below which search selects with the bounded heap, and the
\* number of items from which it scans in parallel, in the model (100 and
\* 500 in search_engine/src/lib.rs).
HEAP_THRESHOLD == 2
PARALLEL_THRESHOLD == 3
\* The limits a search is called with are 0..MaxLimit.
MaxLimit == 2
\* The File Indexer's generation is followed up to MaxGen.
MaxGen == 2


\* The patterns match_pattern is called with hold up to MaxTokens tokens,
\* the inputs up to MaxInput characters.
MaxTokens == 2
MaxInput == 4
\* The keywords match_quick_link is called with hold up to MaxKeyword
\* characters.
MaxKeyword == 2

\* script_filter.rs
SCRIPT_TIMEOUT_MS == 2000
\* The clock of a spawned call advances in steps of ChildTickMs up to
\* ChildMaxTime.
ChildTickMs == 500
ChildMaxTime == 3000

\* usize counters wrap at USIZE_MOD in the model (2^64 in the build).
USIZE_MOD == 65536
\* Calls made on one Indexer.
MaxIndexerOps == 3

\* Modification times of the roots run from 0 to MaxMtime.
MaxMtime == 2

\* Operations (watcher events and scans) followed on one FileIndexer, and
\* batches flushed by one scan.
MaxWatchOps == 2
MaxFlushes == 2

\* Entries per batch of a scan in the model (BATCH_SIZE, 1000 in
\* file_indexer/src/lib.rs), and the max_files of the model's configuration.
BATCH_SIZE == 2
MaxFilesCfg == 9
MinFilesCfg == 3
\* The greatest max_depth of the model's configurations.
MaxDepthCfg == 3

\* Snippets per list, characters per trigger and per text of find_match.
MaxSnippets == 2
MaxTrigger == 2
MaxText == 3

MaxCandidate == 2

MaxFuzzyQuery == 3

MaxArgPieces == 2

\* The keyword set changes up to MaxEpoch times.
MaxEpoch == 2

\* The mutating calls of one run of the two-step ActionManager.
MaxAmCalls == 3

\* The calls on one FileIndexer and the events of its watcher in one run.
MaxLockCalls == 3
MaxLockEvents == 1
VARIABLES
    \* ---- storage substrate (storage_utils/src/lib.rs) ----
    arcs,       \* the Arc<Vec<T>> allocations: buffer id -> vector
    cur,        \* RkyvStorage.items: the buffer the store points to
    snaps,      \* the snapshots (Arcs from get_all) that clients hold
    pc,         \* client -> position inside the call it is executing
    chan,       \* AsyncWriter's mpsc channel: queue of WriteOp
    wpc,        \* storage-writer thread: position inside its loop
    wdata,      \* storage-writer thread: the data of the Save it is writing
    fsPath,     \* inode at <path> (0: no such file)
    fsTmp,      \* inode at <path>.tmp (0: no such file)
    ino,        \* inode -> file contents
    fd,         \* process -> inode of the file it has open (0: none)
    acked,      \* client -> the writer answered its Flush
    nOps,       \* history: the number of mutations applied so far
    lastOp,     \* history: the mutation applied last, in write-lock order
    hist,       \* history: every vector the store has held
    saveFailed, \* history: some save returned or logged an I/O error
    flushed,    \* history: "no", the client whose flush() is pending, or
                \* "yes": a flush() called after the last mutation, with
                \* every other call complete, has returned
    \* ---- script filter cache (action_manager/src/script_filter.rs) ----
    SCRIPT_CACHE, \* the LRU cache: entries, most recently used first
    now,        \* the clock, in milliseconds
    files,      \* the script files that exist
    spc,        \* caller -> position inside execute_script_filter
    sarg,       \* caller -> the key and action id of its running call
    sret,       \* the key and the outcome of the last step of a call, and how
                \* it came about: from the cache, a missing script, a spawn
                \* or the end of a run
    ins,        \* history: one key, and the time and results of the last
                \* store_cache for it
    \* ---- action dispatcher (action_manager/src/lib.rs) ----
    dStore,     \* ActionManager.storage: the stored vector of actions
    actions,    \* ActionManager.actions
    keyword_matcher, \* ActionManager.keyword_matcher
    dRet,       \* what the last call on the dispatcher returned; for a
                \* search the results, each with the position of the
                \* action whose arm pushed it
    dLast,      \* history: the last call on the dispatcher
    \* ---- search engine (search_engine/src/lib.rs) ----
    indexItems, \* Indexer.items: the items of the in-memory index
    fiFiles,    \* FileIndexer.index: the entries of the file index
    fiGen,      \* FileIndexer.generation
    fiAttached, \* SearchEngine.file_indexer is Some
    cache,      \* SearchEngine.cache: entries, most recently used first
    file_indexer_generation, \* the generation the engine saw last
    sOut,       \* the query, limit and outcome of the last search
    \* ---- one uncached search, step by step ----
    tpc,        \* position inside the search
    tmode,      \* the strategy taken: "heap", "seq" or "par"
    tms,        \* the match tuples of the candidates
    tcount,     \* items_count
    tlimit,     \* limit
    todo,       \* the matches not yet visited
    theap,      \* heap
    tvec,       \* matches, as collected
    tkept,      \* matches, after select_nth and truncate
    tres,       \* results
    \* ---- one call of a function of the library ----
    callArgs,   \* the function called and its arguments
    callRet,    \* what it returned, once it has
    \* ---- keyword matcher cache (shared_utils/src/lib.rs) ----
    automaton,  \* KeywordMatcherCache.automaton
    matcher_needs_rebuild, \* KeywordMatcherCache.matcher_needs_rebuild
    kmcRet,     \* what the last with_automaton returned
    \* ---- one call of execute_script_filter from its spawn on ----
    cpc,        \* position of the call: "wait_timeout", "read", "kill",
                \* "wait" or "returned"
    child,      \* the child process: "running", "exited" (not yet waited
                \* for) or "reaped"
    script,     \* how the script behaves: whether it exits by itself, its
                \* exit status, whether its output parses, whether it
                \* leaves a background process behind
    holders,    \* the processes that hold the write end of the stdout pipe
    cnow,       \* the clock, in milliseconds since the spawn
    exitAt,     \* history: when the child exited by itself (-1: it has not)
    cret,       \* what the call returned
    retAt,      \* history: when the call returned (-1: it has not)
    \* ---- search_engine::Indexer ----
    indexer_items,  \* Indexer.items: id -> item_type of the item
    indexer_stats,  \* Indexer.stats: total_items, apps, files, snippets
    indexer_ops,    \* number of calls made on the Indexer
    \* ---- FileIndexer::refresh_if_needed ----
    fi_enabled,     \* config.enabled
    needs_initial,  \* FileIndexer.needs_initial
    last_scan,      \* FileIndexer.last_scan: root -> recorded time, or None
    dirs,           \* the roots on disk: whether each exists, and its mtime
    refreshed,      \* the last refresh_if_needed: what it returned, the
                    \* roots it scanned, whether scan_all_directories ran
    \* ---- FileIndexer: the index, its watcher thread and a scanning thread ----
    disk,           \* path -> "absent", "file" or "dir"
    index,          \* FileIndexer.index: normalised key -> path of the entry
    file_count,     \* FileIndexer.file_count
    generation,     \* FileIndexer.generation
    scanning,       \* the scanning thread: whether a scan is under way, and
                    \* the generation and the index it started from
    handled,        \* history: the last operation completed, with the index,
                    \* file_count and generation it started from
    observed,       \* history: the (generation, index) pairs a consumer has
                    \* seen between operations
    \* ---- FileIndexer::scan_directory on one root ----
    sc_config,      \* config: max_depth, index_hidden, max_files
    sc_stack,       \* stack: (directory, depth), the top last
    sc_batch,       \* batch: the entries not yet flushed
    sc_index,       \* the files the scan has put into the index
    sc_count,       \* file_count
    sc_read,        \* history: the directories read
    sc_pc,          \* "loop", or "done" after the last flush
    \* ---- SnippetMatcher ----
    sm_snippets,    \* SnippetMatcher.snippets
    sm_automaton,   \* SnippetMatcher.automaton: None, or the patterns it was
                    \* built from
    sm_list,        \* history: the list of the last update_snippets
    sm_found        \* the last find_match: its text and what it returned

storeVars == <<arcs, cur, snaps, pc, chan, wpc, wdata, fsPath, fsTmp, ino, fd,
               acked, nOps, lastOp, hist, saveFailed, flushed>>

scriptVars == <<SCRIPT_CACHE, now, files, spc, sarg, sret, ins>>

dispVars == <<dStore, actions, keyword_matcher, dRet, dLast>>

searchVars == <<indexItems, fiFiles, fiGen, fiAttached, cache,
                file_indexer_generation, sOut>>

topkVars == <<tpc, tmode, tms, tcount, tlimit, todo, theap, tvec, tkept, tres>>

callVars == <<callArgs, callRet>>

\* The subsystems modelled first, and the rest.
coreVars == <<storeVars, scriptVars, dispVars, searchVars, topkVars>>

kmcVars == <<automaton, matcher_needs_rebuild, kmcRet>>

childVars == <<cpc, child, script, holders, cnow, exitAt, cret, retAt>>

indexerVars == <<indexer_items, indexer_stats, indexer_ops>>

refreshVars == <<fi_enabled, needs_initial, last_scan, dirs, refreshed>>

watchVars == <<disk, index, file_count, generation, scanning, handled, observed>>

scanVars == <<sc_config, sc_stack, sc_batch, sc_index, sc_count, sc_read, sc_pc>>

snippetVars == <<sm_snippets, sm_automaton, sm_list, sm_found>>

VARIABLES
    \* ---- KeywordMatcherCache: a rebuild step by step beside invalidate ----
    kw_epoch,       \* history: the number of changes of the keyword set
    inval_epoch,    \* history: kw_epoch at the latest invalidate()
    rb,             \* the thread in rebuild: its position and the epoch of the
                    \* patterns its pattern_builder returned
    built_epoch,    \* history: the epoch of the patterns the stored automaton
                    \* was built from
    \* ---- SnippetMatcher: update_snippets and find_match step by step ----
    sm_prev,        \* history: the list of the update_snippets before the last
    up,             \* the thread in update_snippets: its position, its
                    \* enabled_snippets and its automaton
    fm,             \* the thread in find_match: its position, its text and its
                    \* last_match; past its first step it holds the read
                    \* lock of the automaton
    \* ---- ActionManager: add, update, remove and toggle in two steps ----
    am,             \* the threads in a mutating call: position, operation,
                    \* argument, the store's answer and the value returned
    am_disk,        \* the vector in the file of the store
    am_calls,       \* the number of calls begun
    \* ---- SearchEngine::search step by step, for two threads ----
    se,             \* the threads in search: position, query, limit, the
                    \* results computed, and as history the files and the
                    \* generation of the File Indexer when it was read
    \* ---- FileIndexer: its four reader/writer locks and the threads on them ----
    lk,             \* the locks config, last_scan, index and watcher: the read
                    \* guards of each thread, the writer, the waiting writers
    th,             \* the threads: position, the lock whose write guard the
                    \* thread waits for, and the locals config and needs_restart
    fx,             \* the fields the branches read: config.enabled,
                    \* config.directories, needs_initial, index.is_empty(),
                    \* watcher.is_some()
    lk_calls,       \* the number of calls begun
    lk_events       \* the number of events the watcher thread has received

kmcRaceVars == <<kw_epoch, inval_epoch, rb, built_epoch>>

snipRaceVars == <<sm_prev, up, fm>>

amVars == <<am, am_disk, am_calls>>

seRaceVars == <<se>>

lockVars == <<lk, th, fx, lk_calls, lk_events>>

lastVars == <<kmcRaceVars, snipRaceVars, amVars, seRaceVars, lockVars>>

moreVars == <<watchVars, scanVars, snippetVars, lastVars>>

laterVars == <<callVars, kmcVars, childVars, indexerVars, refreshVars, moreVars>>

OlderVars == <<coreVars, callVars, kmcVars, childVars, indexerVars, refreshVars>>

WatchFrame == UNCHANGED <<OlderVars, scanVars, snippetVars, lastVars>>

ScanFrame == UNCHANGED <<OlderVars, watchVars, snippetVars, lastVars>>

SnippetFrame == UNCHANGED <<OlderVars, watchVars, scanVars, lastVars>>

\* The variables of the other late subsystems.
KmcRaceOthers == <<watchVars, scanVars, snippetVars, snipRaceVars, amVars, seRaceVars, lockVars>>

\* The variables of the other late subsystems.
SnipRaceOthers == <<watchVars, scanVars, kmcRaceVars, amVars, seRaceVars, lockVars>>

SnipRaceFrame == UNCHANGED <<OlderVars, SnipRaceOthers>>

\* The variables of the other late subsystems.
AmOthers == <<watchVars, scanVars, snippetVars, kmcRaceVars, snipRaceVars, seRaceVars, lockVars>>

\* The variables of the other late subsystems.
SeRaceOthers == <<watchVars, scanVars, snippetVars, kmcRaceVars, snipRaceVars, amVars, lockVars>>

\* The variables of the other late subsystems.
LockOthers == <<watchVars, scanVars, snippetVars, kmcRaceVars, snipRaceVars, amVars, seRaceVars>>

LockFrame == UNCHANGED <<OlderVars, LockOthers>>

vars == <<coreVars, laterVars>>

\* What the steps of one subsystem leave alone.
OutsideStore == UNCHANGED <<scriptVars, dispVars, searchVars, topkVars, laterVars>>

OutsideScript == UNCHANGED <<storeVars, dispVars, searchVars, topkVars, laterVars>>

OutsideDisp == UNCHANGED <<storeVars, searchVars, topkVars, laterVars>>

(***************************************************************************)
(* Sequence helpers.                                                       *)
(***************************************************************************)
Range(s) == {s[i] : i \in 1..Len(s)}

Min2(a, b) == IF a < b THEN a ELSE b

Max2(a, b) == IF a > b THEN a ELSE b

\* The least positive integer not in S.
FreshId(S) == CHOOSE n \in 1..(Cardinality(S) + 1) :
                  n \notin S /\ \A m \in 1..(n - 1) : m \in S

(***************************************************************************)
(* Storage substrate: the archive format.                                  *)
(* rkyv::to_bytes / rkyv::from_bytes are modelled by a header that carries *)
(* the length (a negative number, so that it differs from every record     *)
(* and from a zero byte) followed by the records.                          *)
(***************************************************************************)
ToBytes(v) == <<0 - Len(v) - 1>> \o v

ValidArchive(b) ==
    /\ Len(b) >= 1
    /\ b[1] < 0
    /\ Len(b) = (0 - b[1])
    /\ \A i \in 2..Len(b) : b[i] > 0

FromBytes(b) == SubSeq(b, 2, Len(b))

\* load_from_disk on the bytes of an existing file: a zero-byte file and a
\* file that fails validation load as the empty vector.
LoadFromBytes(b) ==
    IF Len(b) = 0 THEN <<>>
    ELSE IF ValidArchive(b) THEN FromBytes(b)
    ELSE <<>>

(***************************************************************************)
(* Storage substrate: the file system under <path> and <path>.tmp.         *)
(***************************************************************************)
Procs == Clients \cup {"writer"}

\* Inodes that a name or an open file still refers to.
LiveInodes(p, t, f) == ({p, t} \cup {f[x] : x \in DOMAIN f}) \ {0}

Collect(i, p, t, f) == [n \in (DOMAIN i \cap LiveInodes(p, t, f)) |-> i[n]]

\* write_all + flush of a BufWriter on a freshly opened file: one write at
\* offset 0, which keeps whatever the file holds beyond the written bytes.
WriteAt0(content, bytes) ==
    bytes \o SubSeq(content, Len(bytes) + 1, Len(content))

\* Mutant: the file at <path>.tmp is opened without truncate(true).
OpenTmpKept(p) ==
    IF fsTmp # 0
    THEN /\ ino' = ino
         /\ fd' = [fd EXCEPT ![p] = fsTmp]
         /\ fsTmp' = fsTmp
    ELSE LET n == FreshId(DOMAIN ino)
         IN /\ ino' = [i \in DOMAIN ino \cup {n} |-> IF i = n THEN <<>> ELSE ino[i]]
            /\ fd' = [fd EXCEPT ![p] = n]
            /\ fsTmp' = n

\* OpenOptions::new().write(true).create(true).truncate(true).open(tmp)
\* by process p: the file at <path>.tmp is truncated when it exists, and
\* created when it does not.
OpenTmp(p) ==
    IF fsTmp # 0
    THEN /\ ino' = [ino EXCEPT ![fsTmp] = <<>>]
         /\ fd' = [fd EXCEPT ![p] = fsTmp]
         /\ fsTmp' = fsTmp
    ELSE LET n == FreshId(DOMAIN ino)
         IN /\ ino' = [i \in DOMAIN ino \cup {n} |-> IF i = n THEN <<>> ELSE ino[i]]
            /\ fd' = [fd EXCEPT ![p] = n]
            /\ fsTmp' = n

\* writer.write_all(bytes); writer.flush(); drop(writer) by process p.
WriteTmp(p, bytes) ==
    LET f2 == [fd EXCEPT ![p] = 0]
        i2 == [ino EXCEPT ![fd[p]] = WriteAt0(ino[fd[p]], bytes)]
    IN /\ fd' = f2
       /\ ino' = Collect(i2, fsPath, fsTmp, f2)

\* fs::rename(tmp, path) succeeds iff <path>.tmp exists.
RenameOk == fsTmp # 0

RenameTmp ==
    IF RenameOk
    THEN /\ fsPath' = fsTmp
         /\ fsTmp' = 0
         /\ ino' = Collect(ino, fsTmp, 0, fd)
    ELSE UNCHANGED <<fsPath, fsTmp, ino>>

\* The bytes of the file at <path>, <<>> also when there is no file.
PathBytes == IF fsPath = 0 THEN <<>> ELSE ino[fsPath]

(***************************************************************************)
(* Storage substrate: the in-memory vector behind RwLock<Arc<Vec<T>>>.     *)
(***************************************************************************)
\* The vector the store holds (what a reader sees under the read lock).
Vec == arcs[cur]

\* len() and get_all(): both read through self.items.read().
StoreLen == Len(arcs[cur])

GetAllValue == arcs[cur]

\* Another Arc points to the store's buffer: Arc::strong_count > 1.
Shared == \E s \in snaps : s.buf = cur

\* save() holds the read lock from serialisation to the rename, so a
\* writer (items.write()) has to wait while some client is inside it.
ReadLocked == \E t \in Clients : pc[t] \in {"write", "rename"}

\* Arc::make_mut leaves a snapshot holder its buffer and hands the writer an
\* unshared one.  The mutants: write through the shared buffer; start the
\* writer's buffer empty instead of cloning.
MakeMutBufInPlace == cur

MakeMutBuf == IF Shared THEN FreshId(DOMAIN arcs) ELSE cur

MakeMutVecLost == IF Shared THEN <<>> ELSE arcs[cur]

MakeMutVec == arcs[cur]

\* Buffers some Arc still points to, with the store pointing to c.
LiveBufs(c, sn) == {c} \cup {s.buf : s \in sn}

\* Mutant: the writer mutates a clone that is never installed in the store.
WriteVecCloneDropped(v) ==
    IF Shared
    THEN UNCHANGED <<arcs, cur>>
    ELSE /\ cur' = cur
         /\ arcs' = [arcs EXCEPT ![cur] = v]

\* Arc::make_mut(&mut self.items.write()) followed by the mutation whose
\* result is v; the guard is released at the end of the step.
WriteVec(v) ==
    LET b == MakeMutBuf
        a2 == [x \in DOMAIN arcs \cup {b} |-> IF x = b THEN v ELSE arcs[x]]
    IN /\ cur' = b
       /\ arcs' = [x \in LiveBufs(b, snaps) |-> a2[x]]

VecPush(v, x) == Append(v, x)

VecInsertFront(v, x) == <<x>> \o v

VecClear(v) == <<>>

\* items.drain(max..) for max < len: what stays, and what is removed.
VecKeep(v, max) == IF max < Len(v) THEN SubSeq(v, 1, max) ELSE v

VecDrained(v, max) == IF max < Len(v) THEN SubSeq(v, max + 1, Len(v)) ELSE <<>>

\* The closures handed to update / update_async, after those of
\* ActionManager: replace an element in place, or retain the others.
Updaters == {"replace", "retain"}

UpdVec(f, x, v) ==
    IF f = "replace"
    THEN (IF Len(v) > 0 THEN [v EXCEPT ![1] = x] ELSE v)
    ELSE SelectSeq(v, LAMBDA y : y # x)

UpdModified(f, x, v) ==
    IF f = "replace" THEN Len(v) > 0 ELSE Len(UpdVec(f, x, v)) # Len(v)

(***************************************************************************)
(* Storage substrate: the calls of a client thread.                        *)
(***************************************************************************)
StoreFsUnchanged == UNCHANGED <<fsPath, fsTmp, ino, fd>>

WriterUnchanged == UNCHANGED <<chan, wpc, wdata, acked>>

\* Bookkeeping of a step that mutated the vector into v by operation e.
Mutated(t, e, v, next) ==
    /\ WriteVec(v)
    /\ nOps' = nOps + 1
    /\ lastOp' = e
    /\ hist' = hist \cup {v}
    /\ flushed' = "no"
    /\ pc' = [pc EXCEPT ![t] = next]
    /\ UNCHANGED <<snaps, saveFailed>>
    /\ StoreFsUnchanged
    /\ WriterUnchanged
    /\ OutsideStore

CanMutate(t) ==
    /\ pc[t] = "idle"
    /\ ~ReadLocked
    /\ nOps < MaxOps

\* add: push under the write lock, then save().
Add(t, x) ==
    /\ CanMutate(t)
    /\ Len(Vec) < MaxLen
    /\ Mutated(t, [op |-> "add", x |-> x, f |-> "-"], VecPush(MakeMutVec, x), "save")

\* add_async: push under the write lock, then async_save().
AddAsync(t, x) ==
    /\ CanMutate(t)
    /\ Len(Vec) < MaxLen
    /\ Mutated(t, [op |-> "add", x |-> x, f |-> "-"], VecPush(MakeMutVec, x), "asave")

InsertAtFront(t, x) ==
    /\ CanMutate(t)
    /\ Len(Vec) < MaxLen
    /\ Mutated(t, [op |-> "front", x |-> x, f |-> "-"], VecInsertFront(MakeMutVec, x), "save")

InsertAtFrontAsync(t, x) ==
    /\ CanMutate(t)
    /\ Len(Vec) < MaxLen
    /\ Mutated(t, [op |-> "front", x |-> x, f |-> "-"], VecInsertFront(MakeMutVec, x), "asave")

Clear(t) ==
    /\ CanMutate(t)
    /\ Mutated(t, [op |-> "clear", x |-> 0, f |-> "-"], VecClear(MakeMutVec), "save")

\* A call that took the write lock and left the vector as it was: make_mut
\* still unshares the buffer, nothing is saved.
NotModified(t) ==
    /\ WriteVec(MakeMutVec)
    /\ UNCHANGED <<snaps, pc, nOps, lastOp, hist, saveFailed, flushed>>
    /\ StoreFsUnchanged
    /\ WriterUnchanged
    /\ OutsideStore

\* trim_to(max): save only when something was removed.
TrimTo(t, max) ==
    /\ CanMutate(t)
    /\ IF VecDrained(MakeMutVec, max) # <<>>
       THEN Mutated(t, [op |-> "trim", x |-> max, f |-> "-"], VecKeep(MakeMutVec, max), "save")
       ELSE NotModified(t)

\* update(updater): save iff the updater reports a modification.
Update(t, f, x) ==
    /\ CanMutate(t)
    /\ IF UpdModified(f, x, MakeMutVec)
       THEN Mutated(t, [op |-> "update", x |-> x, f |-> f], UpdVec(f, x, MakeMutVec), "save")
       ELSE NotModified(t)

UpdateAsync(t, f, x) ==
    /\ CanMutate(t)
    /\ IF UpdModified(f, x, MakeMutVec)
       THEN Mutated(t, [op |-> "update", x |-> x, f |-> f], UpdVec(f, x, MakeMutVec), "asave")
       ELSE NotModified(t)

\* get_all(): clone the Arc under the read lock.  A snapshot records the
\* buffer it points to and, as history, the vector it held when returned.
GetAll(t) ==
    /\ pc[t] = "idle"
    /\ Cardinality(snaps) < MaxSnaps
    /\ snaps' = snaps \cup {[buf |-> cur, seen |-> arcs[cur]]}
    /\ UNCHANGED <<arcs, cur, pc, nOps, lastOp, hist, saveFailed, flushed>>
    /\ StoreFsUnchanged
    /\ WriterUnchanged
    /\ OutsideStore

\* A client drops an Arc it got from get_all.
DropSnapshot ==
    /\ \E s \in snaps : snaps' = snaps \ {s}
    /\ arcs' = [x \in LiveBufs(cur, snaps') |-> arcs[x]]
    /\ UNCHANGED <<cur, pc, nOps, lastOp, hist, saveFailed, flushed>>
    /\ StoreFsUnchanged
    /\ WriterUnchanged
    /\ OutsideStore

MemUnchanged == UNCHANGED <<arcs, cur, snaps, nOps, lastOp, hist>>

\* save(): take the read lock; save_to_disk serialises and opens the
\* temporary file.  The bytes are those of the vector under the lock, which
\* no writer can change before the lock is released.
SaveOpen(t) ==
    /\ pc[t] = "save"
    /\ OpenTmp(t)
    /\ pc' = [pc EXCEPT ![t] = "write"]
    /\ UNCHANGED <<fsPath, saveFailed, flushed>>
    /\ MemUnchanged
    /\ WriterUnchanged
    /\ OutsideStore

SaveWrite(t) ==
    /\ pc[t] = "write"
    /\ WriteTmp(t, ToBytes(Vec))
    /\ pc' = [pc EXCEPT ![t] = "rename"]
    /\ UNCHANGED <<fsPath, fsTmp, saveFailed, flushed>>
    /\ MemUnchanged
    /\ WriterUnchanged
    /\ OutsideStore

\* fs::rename, then the read lock is released and the call returns.
SaveRename(t) ==
    /\ pc[t] = "rename"
    /\ RenameTmp
    /\ saveFailed' = (saveFailed \/ ~RenameOk)
    /\ pc' = [pc EXCEPT ![t] = "idle"]
    /\ UNCHANGED <<fd, flushed>>
    /\ MemUnchanged
    /\ WriterUnchanged
    /\ OutsideStore

SaveOp(b) == [kind |-> "Save", data |-> b, to |-> "-"]

FlushOp(t) == [kind |-> "Flush", data |-> <<>>, to |-> t]

\* async_save(): serialise under the read lock and send WriteOp::Save.
AsyncSave(t) ==
    /\ pc[t] = "asave"
    /\ Len(chan) < MaxChan
    /\ chan' = Append(chan, SaveOp(ToBytes(Vec)))
    /\ pc' = [pc EXCEPT ![t] = "idle"]
    /\ UNCHANGED <<wpc, wdata, acked, saveFailed, flushed>>
    /\ MemUnchanged
    /\ StoreFsUnchanged
    /\ OutsideStore

\* flush(): send WriteOp::Flush and wait for the answer.
Flush(t) ==
    /\ pc[t] = "idle"
    /\ Len(chan) < MaxChan
    /\ chan' = Append(chan, FlushOp(t))
    /\ pc' = [pc EXCEPT ![t] = "flushwait"]
    /\ flushed' = IF /\ flushed = "no"
                     /\ \A u \in Clients \ {t} : pc[u] \in {"idle", "flushwait"}
                  THEN t ELSE flushed
    /\ UNCHANGED <<wpc, wdata, acked, saveFailed>>
    /\ MemUnchanged
    /\ StoreFsUnchanged
    /\ OutsideStore

FlushReturn(t) ==
    /\ pc[t] = "flushwait"
    /\ acked[t]
    /\ acked' = [acked EXCEPT ![t] = FALSE]
    /\ pc' = [pc EXCEPT ![t] = "idle"]
    /\ flushed' = IF flushed = t THEN "yes" ELSE flushed
    /\ UNCHANGED <<chan, wpc, wdata, saveFailed>>
    /\ MemUnchanged
    /\ StoreFsUnchanged
    /\ OutsideStore

(***************************************************************************)
(* Storage substrate: the storage-writer thread of AsyncWriter::new.       *)
(***************************************************************************)
\* rx.recv() of a Save: write_atomic opens the temporary file.
WriterRecvSave ==
    /\ wpc = "recv"
    /\ chan # <<>>
    /\ Head(chan).kind = "Save"
    /\ chan' = Tail(chan)
    /\ wdata' = Head(chan).data
    /\ OpenTmp("writer")
    /\ wpc' = "write"
    /\ UNCHANGED <<fsPath, pc, acked, saveFailed, flushed>>
    /\ MemUnchanged
    /\ OutsideStore

\* rx.recv() of a Flush: answer it.
WriterRecvFlush ==
    /\ wpc = "recv"
    /\ chan # <<>>
    /\ Head(chan).kind = "Flush"
    /\ chan' = Tail(chan)
    /\ acked' = [acked EXCEPT ![Head(chan).to] = TRUE]
    /\ UNCHANGED <<wpc, wdata, pc, saveFailed, flushed>>
    /\ MemUnchanged
    /\ StoreFsUnchanged
    /\ OutsideStore

WriterWrite ==
    /\ wpc = "write"
    /\ WriteTmp("writer", wdata)
    /\ wpc' = "rename"
    /\ UNCHANGED <<fsPath, fsTmp, chan, wdata, pc, acked, saveFailed, flushed>>
    /\ MemUnchanged
    /\ OutsideStore

\* fs::rename; an error is printed and the loop goes on.
WriterRename ==
    /\ wpc = "rename"
    /\ RenameTmp
    /\ saveFailed' = (saveFailed \/ ~RenameOk)
    /\ wpc' = "recv"
    /\ wdata' = <<>>
    /\ UNCHANGED <<fd, chan, pc, acked, flushed>>
    /\ MemUnchanged
    /\ OutsideStore

(***************************************************************************)
(* Storage substrate: specification.                                       *)
(***************************************************************************)
StoreInit ==
    /\ arcs = [b \in {1} |-> <<>>]
    /\ cur = 1
    /\ snaps = {}
    /\ pc = [t \in Clients |-> "idle"]
    /\ chan = <<>>
    /\ wpc = "recv"
    /\ wdata = <<>>
    /\ fsPath = 0
    /\ fsTmp = 0
    /\ ino = [n \in {} |-> <<>>]
    /\ fd = [p \in Procs |-> 0]
    /\ acked = [t \in Clients |-> FALSE]
    /\ nOps = 0
    /\ lastOp = [op |-> "none", x |-> 0, f |-> "-"]
    /\ hist = {<<>>}
    /\ saveFailed = FALSE
    /\ flushed = "no"

StoreNext ==
    \/ \E t \in Clients, x \in Items :
          \/ Add(t, x)
          \/ AddAsync(t, x)
          \/ InsertAtFront(t, x)
          \/ InsertAtFrontAsync(t, x)
    \/ \E t \in Clients, f \in Updaters, x \in Items :
          \/ Update(t, f, x)
          \/ UpdateAsync(t, f, x)
    \/ \E t \in Clients, max \in 0..MaxLen : TrimTo(t, max)
    \/ \E t \in Clients :
          \/ Clear(t)
          \/ GetAll(t)
          \/ SaveOpen(t)
          \/ SaveWrite(t)
          \/ SaveRename(t)
          \/ AsyncSave(t)
          \/ Flush(t)
          \/ FlushReturn(t)
    \/ DropSnapshot
    \/ WriterRecvSave
    \/ WriterRecvFlush
    \/ WriterWrite
    \/ WriterRename


(***************************************************************************)
(* Strings are sequences of one-character strings.                         *)
(***************************************************************************)
\* char::is_whitespace, on the characters the model uses.
IsWs(c) == c \in {" ", "\t", "\n"}

RECURSIVE TrimStart(_)
TrimStart(s) ==
    IF s # <<>> /\ IsWs(Head(s)) THEN TrimStart(Tail(s)) ELSE s

RECURSIVE TrimEnd(_)
TrimEnd(s) ==
    IF s # <<>> /\ IsWs(s[Len(s)]) THEN TrimEnd(SubSeq(s, 1, Len(s) - 1)) ELSE s

\* str::trim
Trim(s) == TrimEnd(TrimStart(s))

\* str::starts_with
StartsWith(s, p) == Len(p) <= Len(s) /\ SubSeq(s, 1, Len(p)) = p

None == [some |-> FALSE]

Some(v) == [some |-> TRUE, val |-> v]

\* Mutant: the keyword is accepted as the prefix of a longer word.
MatchAnyPrefix(query, keyword) ==
    LET trimmed == Trim(query)
    IN  IF StartsWith(trimmed, keyword)
        THEN Some(Trim(SubSeq(trimmed, Len(keyword) + 1, Len(trimmed))))
        ELSE None

\* ActionManager::match_quick_link: the text after the keyword, trimmed,
\* when the trimmed query is the keyword alone or the keyword followed by a
\* space or a tab.
match_quick_link(query, keyword) ==
    LET trimmed == Trim(query)
        after_keyword == SubSeq(trimmed, Len(keyword) + 1, Len(trimmed))
    IN  IF /\ StartsWith(trimmed, keyword)
           /\ \/ after_keyword = <<>>
              \/ Head(after_keyword) \in {" ", "\t"}
        THEN Some(Trim(after_keyword))
        ELSE None

\* str::split_whitespace: acc holds the finished tokens, tok the open one.
RECURSIVE SplitWs(_, _, _)
SplitWs(s, tok, acc) ==
    IF s = <<>>
    THEN IF tok = <<>> THEN acc ELSE Append(acc, tok)
    ELSE IF IsWs(Head(s))
         THEN SplitWs(Tail(s), <<>>, IF tok = <<>> THEN acc ELSE Append(acc, tok))
         ELSE SplitWs(Tail(s), Append(tok, Head(s)), acc)

split_whitespace(s) == SplitWs(s, <<>>, <<>>)

\* The least index j >= from with s[j] = c, or 0: Iterator::position.
Position(s, from, c) ==
    LET hits == {j \in from..Len(s) : s[j] = c}
    IN  IF hits = {} THEN 0 ELSE CHOOSE j \in hits : \A k \in hits : j <= k

\* HashMap::insert
MapInsert(m, k, v) == [x \in DOMAIN m \cup {k} |-> IF x = k THEN v ELSE m[x]]

EmptyMap == [x \in {} |-> <<>>]

\* The loop of match_pattern over one token that holds a '{': pat_idx and
\* inp_idx are the one-based positions in the token and in the input token.
RECURSIVE MatchToken(_, _, _, _, _)
MatchToken(pat, inp, pat_idx, inp_idx, captures) ==
    IF pat_idx > Len(pat)
    THEN IF inp_idx = Len(inp) + 1 THEN Some(captures) ELSE None
    ELSE IF pat[pat_idx] = "{"
         THEN LET var_start == pat_idx + 1
                  var_end == Position(pat, var_start, "}")
                  next_literal_idx == var_end + 1
                  found == IF next_literal_idx <= Len(pat)
                           THEN Position(inp, inp_idx, pat[next_literal_idx])
                           ELSE 0
                  value_end == IF found = 0 THEN Len(inp) + 1 ELSE found
              IN  IF var_end = 0
                  THEN None
                  ELSE IF value_end > inp_idx
                       THEN MatchToken(pat, inp, next_literal_idx, value_end,
                                       MapInsert(captures,
                                                 SubSeq(pat, var_start, var_end - 1),
                                                 SubSeq(inp, inp_idx, value_end - 1)))
                       ELSE None
         ELSE IF inp_idx > Len(inp) \/ pat[pat_idx] # inp[inp_idx]
              THEN None
              ELSE MatchToken(pat, inp, pat_idx + 1, inp_idx + 1, captures)

\* The loop of match_pattern over the zipped token lists, from token i.
RECURSIVE MatchParts(_, _, _, _)
MatchParts(pattern_parts, input_parts, i, captures) ==
    IF i > Len(pattern_parts)
    THEN Some(captures)
    ELSE LET pat == pattern_parts[i]
             inp == input_parts[i]
         IN  IF \E j \in 1..Len(pat) : pat[j] = "{"
             THEN LET m == MatchToken(pat, inp, 1, 1, captures)
                  IN  IF m.some
                      THEN MatchParts(pattern_parts, input_parts, i + 1, m.val)
                      ELSE None
             ELSE IF pat # inp
                  THEN None
                  ELSE MatchParts(pattern_parts, input_parts, i + 1, captures)

match_pattern(pattern, input) ==
    LET pattern_parts == split_whitespace(pattern)
        input_parts == split_whitespace(input)
    IN  IF Len(pattern_parts) # Len(input_parts)
        THEN None
        ELSE MatchParts(pattern_parts, input_parts, 1, EmptyMap)

\* The loop of expand_template: i scans the template, last_end is the start
\* of the text not yet copied, result the text built so far.
RECURSIVE ExpandFrom(_, _, _, _, _)
ExpandFrom(template, captures, i, last_end, result) ==
    IF i > Len(template)
    THEN result \o SubSeq(template, last_end, Len(template))
    ELSE LET close == IF template[i] = "{" /\ i + 1 <= Len(template)
                      THEN Position(template, i + 1, "}")
                      ELSE 0
             key == SubSeq(template, i + 1, close - 1)
         IN  IF close # 0 /\ key \in DOMAIN captures
             THEN ExpandFrom(template, captures, close + 1, close + 1,
                             result \o SubSeq(template, last_end, i - 1) \o captures[key])
             ELSE ExpandFrom(template, captures, i + 1, last_end, result)

expand_template(template, captures) == ExpandFrom(template, captures, 1, 1, <<>>)

(***************************************************************************)
(* Script filters: the process-wide result cache of script_filter.rs.      *)
(***************************************************************************)
\* cache_key: the FxHash of (script_path, query), taken to be free of
\* collisions; extension_dir and action_id are not part of the key.
cache_key(script_path, query) == <<script_path, query>>

\* The file a relative script_path names: Path::new(extension_dir).join.
ResolvePath(script_path, extension_dir) == <<extension_dir, script_path>>

\* The position of key in the LRU list c (most recently used first), or 0.
LruIndex(c, key) ==
    LET hits == {i \in 1..Len(c) : c[i].key = key}
    IN  IF hits = {} THEN 0 ELSE CHOOSE i \in hits : TRUE

LruWithout(c, i) == SubSeq(c, 1, i - 1) \o SubSeq(c, i + 1, Len(c))

\* LruCache::get: a present entry becomes the most recently used.
LruGet(c, key) ==
    LET i == LruIndex(c, key)
    IN  IF i = 0 THEN c ELSE <<c[i]>> \o LruWithout(c, i)

\* LruCache::put: replaces the entry of the key, or inserts it and drops
\* the least recently used entry of a full cache.
LruPut(c, e) ==
    LET i == LruIndex(c, e.key)
    IN  IF i # 0
        THEN <<e>> \o LruWithout(c, i)
        ELSE IF Len(c) >= SCRIPT_CACHE_SIZE
             THEN <<e>> \o SubSeq(c, 1, SCRIPT_CACHE_SIZE - 1)
             ELSE <<e>> \o c

\* Mutant: an entry is fresh up to and including CACHE_TTL_MS.
FreshInclusive(e, t) == t - e.timestamp <= CACHE_TTL_MS

\* entry.timestamp.elapsed() < Duration::from_millis(CACHE_TTL_MS)
Fresh(e, t) == t - e.timestamp < CACHE_TTL_MS

\* check_cache at time t: the cached results of a present, fresh entry.
check_cache(c, key, t) ==
    LET i == LruIndex(c, key)
    IN  IF i # 0 /\ Fresh(c[i], t) THEN Some(c[i].results) ELSE None

\* store_cache at time t.
store_cache(c, key, results, t) ==
    LruPut(c, [key |-> key, results |-> results, timestamp |-> t])

\* What a run of a script prints: a list of items, each valid or not.
ItemLists ==
    {<<[title |-> "t1", valid |-> TRUE]>>,
     <<[title |-> "t0", valid |-> FALSE], [title |-> "t2", valid |-> TRUE]>>}

\* The results execute_script_filter builds from the items of a run: the
\* valid items, named after the action and their position in the output.
ScriptResults(items, action_id) ==
    LET idx == {i \in 1..Len(items) : items[i].valid}
        F[n \in 0..Len(items)] ==
            IF n = 0 THEN <<>>
            ELSE IF n \in idx
                 THEN Append(F[n - 1], [id |-> <<action_id, "-", n - 1>>,
                                        title |-> items[n].title,
                                        score |-> SCRIPT_ITEM_SCORE])
                 ELSE F[n - 1]
    IN  F[Len(items)]

Ok(v) == [ok |-> TRUE, val |-> v]

Err(e) == [ok |-> FALSE, err |-> e]

\* The call has spawned the script and waits for it.
Spawned == [ok |-> FALSE, err |-> "-"]

\* How a spawned script ends.
Endings ==
    {[kind |-> "exit0", items |-> l] : l \in ItemLists}
        \cup {[kind |-> "failed", items |-> <<>>], [kind |-> "timeout", items |-> <<>>]}

\* What execute_script_filter returns for a spawned script that ended as en.
ExecResult(en, action_id) ==
    CASE en.kind = "exit0" -> Ok(ScriptResults(en.items, action_id))
      [] en.kind = "failed" -> Err("Script failed")
      [] OTHER -> Err("Script timed out")

\* The cache after a spawned script ended as en at time t: only results of
\* a successful run are stored.
ExecCache(c, key, en, action_id, t) ==
    IF en.kind = "exit0"
    THEN store_cache(c, key, ScriptResults(en.items, action_id), t)
    ELSE c

ScriptPaths == {"s1"}

ExtDirs == {"d1"}

ScriptQueries == {<<>>, <<"x">>, <<"y">>}

ActionIds == {"a1", "a2"}

\* The action id the direct callers of execute_script_filter pass.
CallerIds == {"a1"}

Callers == {"k1", "k2"}

ScriptFiles == {ResolvePath(s, d) : s \in ScriptPaths, d \in ExtDirs}

CacheKeys == {cache_key(s, q) : s \in ScriptPaths, q \in ScriptQueries}

\* The key whose insertions the history variable ins follows; the cache
\* treats every key alike.
TrackedKey == cache_key("s1", <<"x">>)

NoCall == [key |-> <<>>, action_id |-> "-"]

\* The history of store_cache for the key that ins follows.
Stored(i, key, results, t) ==
    IF key = i.key
    THEN [key |-> key, some |-> TRUE, at |-> t, results |-> results]
    ELSE i

\* execute_script_filter up to its first return or to the spawn of the
\* child: the answer of a fresh cache entry, the error of a missing script,
\* or a running child.
ExecBegin(k, script_path, extension_dir, query, action_id) ==
    LET key == cache_key(script_path, query)
        cached == check_cache(SCRIPT_CACHE, key, now)
    IN  /\ spc[k] = "idle"
        /\ SCRIPT_CACHE' = LruGet(SCRIPT_CACHE, key)
        /\ IF cached.some
           THEN /\ sret' = [key |-> key, how |-> "cached", ret |-> Ok(cached.val)]
                /\ UNCHANGED <<spc, sarg>>
           ELSE IF ResolvePath(script_path, extension_dir) \notin files
                THEN /\ sret' = [key |-> key, how |-> "missing", ret |-> Err("Script not found")]
                     /\ UNCHANGED <<spc, sarg>>
                ELSE /\ spc' = [spc EXCEPT ![k] = "running"]
                     /\ sarg' = [sarg EXCEPT ![k] = [key |-> key, action_id |-> action_id]]
                     /\ sret' = [key |-> key, how |-> "spawned", ret |-> Spawned]
        /\ UNCHANGED <<now, files, ins>>
        /\ OutsideScript

\* The child ends, or the deadline passes: execute_script_filter returns,
\* having stored the results of a successful run.
ExecEnd(k, en) ==
    /\ spc[k] = "running"
    /\ SCRIPT_CACHE' = ExecCache(SCRIPT_CACHE, sarg[k].key, en, sarg[k].action_id, now)
    /\ ins' = IF en.kind = "exit0"
              THEN Stored(ins, sarg[k].key, ScriptResults(en.items, sarg[k].action_id), now)
              ELSE ins
    /\ sret' = [key |-> sarg[k].key, how |-> "ended",
                ret |-> ExecResult(en, sarg[k].action_id)]
    /\ spc' = [spc EXCEPT ![k] = "idle"]
    /\ sarg' = [sarg EXCEPT ![k] = NoCall]
    /\ UNCHANGED <<now, files>>
    /\ OutsideScript

\* Time passes.
Tick ==
    /\ now + TickMs <= MaxTime
    /\ now' = now + TickMs
    /\ UNCHANGED <<SCRIPT_CACHE, files, spc, sarg, sret, ins>>
    /\ OutsideScript

\* A script file is removed from, or put back on, the disk.
DeleteScript(f) ==
    /\ f \in files
    /\ files' = files \ {f}
    /\ UNCHANGED <<SCRIPT_CACHE, now, spc, sarg, sret, ins>>
    /\ OutsideScript

CreateScript(f) ==
    /\ f \in ScriptFiles \ files
    /\ files' = files \cup {f}
    /\ UNCHANGED <<SCRIPT_CACHE, now, spc, sarg, sret, ins>>
    /\ OutsideScript

ScriptInit ==
    /\ SCRIPT_CACHE = <<>>
    /\ now = 0
    /\ files = ScriptFiles
    /\ spc = [k \in Callers |-> "idle"]
    /\ sarg = [k \in Callers |-> NoCall]
    /\ sret = [key |-> <<>>, how |-> "-", ret |-> Ok(<<>>)]
    /\ ins = [key |-> TrackedKey, some |-> FALSE, at |-> 0, results |-> <<>>]

(***************************************************************************)
(* The action dispatcher: ActionManager of action_manager/src/lib.rs.      *)
(***************************************************************************)
\* urlencoding::encode on the characters the model uses.
RECURSIVE Encode(_)
Encode(s) ==
    IF s = <<>> THEN <<>>
    ELSE (IF IsWs(Head(s)) THEN <<"%", "2", "0">> ELSE <<Head(s)>>) \o Encode(Tail(s))

\* str::replace
RECURSIVE Replace(_, _, _)
Replace(s, from, to) ==
    IF s = <<>> THEN <<>>
    ELSE IF StartsWith(s, from)
         THEN to \o Replace(SubSeq(s, Len(from) + 1, Len(s)), from, to)
         ELSE <<Head(s)>> \o Replace(Tail(s), from, to)

QueryVar == <<"{", "q", "u", "e", "r", "y", "}">>

\* The kinds of action the model offers to add and update.
Kinds ==
    {[tag |-> "QuickLink", keyword |-> <<"g">>, url |-> <<"/">> \o QueryVar],
     [tag |-> "Pattern", pattern |-> <<"g", " ", "{", "q", "}">>,
      action |-> [tag |-> "CopyText", text |-> <<"{", "q", "}">>]],
     [tag |-> "ScriptFilter", keyword |-> <<"s">>, script_path |-> "s1",
      extension_dir |-> "d1"]}

Actions == [id : ActionIds, enabled : BOOLEAN, kind : Kinds]

\* The kinds with a native extension among them: the actions offered to the
\* operations that do not search.
KeywordKinds ==
    Kinds \cup {[tag |-> "NativeExtension", keyword |-> <<"n">>, extension_id |-> "e1"]}

KeywordActions == [id : ActionIds, enabled : BOOLEAN, kind : KeywordKinds]

\* The queries the model searches for.
Queries == {<<"g">>, <<" ", "g", " ", "x">>, <<"g", "x">>, <<"s", " ", "x">>}

\* Iterator::position(|a| a.id == id), one-based, or 0.
PositionById(acts, id) ==
    LET hits == {i \in 1..Len(acts) : acts[i].id = id}
    IN  IF hits = {} THEN 0 ELSE CHOOSE i \in hits : \A j \in hits : i <= j

\* The updater closure of update: replace the first action of that id.
ReplaceById(acts, a) ==
    LET pos == PositionById(acts, a.id)
    IN  IF pos = 0 THEN acts ELSE [acts EXCEPT ![pos] = a]

\* retain(|a| a.id != id)
RetainOthers(acts, id) == SelectSeq(acts, LAMBDA a : a.id # id)

\* The updater closure of toggle: flip the first action of that id.
ToggleById(acts, id) ==
    LET pos == PositionById(acts, id)
    IN  IF pos = 0 THEN acts
        ELSE [acts EXCEPT ![pos] = [@ EXCEPT !.enabled = ~@]]

\* Mutant: the keywords are collected from every action, enabled or not.
KeywordsOfAll(acts) ==
    LET F[n \in 0..Len(acts)] ==
            IF n = 0 THEN <<>>
            ELSE IF acts[n].kind.tag # "Pattern"
                 THEN Append(F[n - 1], acts[n].kind.keyword)
                 ELSE F[n - 1]
    IN  F[Len(acts)]

\* rebuild_keyword_matcher: the automaton over the keywords of the enabled
\* actions that have one, or None when there is no such keyword.
Keywords(acts) ==
    LET F[n \in 0..Len(acts)] ==
            IF n = 0 THEN <<>>
            ELSE IF acts[n].enabled /\ acts[n].kind.tag # "Pattern"
                 THEN Append(F[n - 1], acts[n].kind.keyword)
                 ELSE F[n - 1]
    IN  F[Len(acts)]

rebuild_keyword_matcher(acts) ==
    IF Keywords(acts) = <<>> THEN None ELSE Some(Keywords(acts))

\* create_result of pattern.rs.
create_result(action_id, pattern, action_type, captures) ==
    LET title == expand_template(pattern, captures)
    IN  [id |-> <<action_id, ":", title>>,
         title |-> title,
         score |-> PATTERN_SCORE,
         action |-> [tag |-> "CopyText", text |-> expand_template(action_type.text, captures)]]

\* execute_script_filter as one step of a search: the script, when it is
\* spawned, ends as en before the search goes on.
execute_script_filter(c, i, script_path, extension_dir, query, action_id, en) ==
    LET key == cache_key(script_path, query)
        cached == check_cache(c, key, now)
        got == LruGet(c, key)
    IN  IF cached.some
        THEN [ret |-> Ok(cached.val), cache |-> got, ins |-> i]
        ELSE IF ResolvePath(script_path, extension_dir) \notin files
             THEN [ret |-> Err("Script not found"), cache |-> got, ins |-> i]
             ELSE [ret |-> ExecResult(en, action_id),
                   cache |-> ExecCache(got, key, en, action_id, now),
                   ins |-> IF en.kind = "exit0"
                           THEN Stored(i, key, ScriptResults(en.items, action_id), now)
                           ELSE i]

\* Mutant: the row of a failed script is scored as an item of a script.
ScriptErrorRowScored(action_id, e) ==
    [id |-> <<action_id, ":", "error">>, title |-> "Script Error",
     subtitle |-> <<"Failed to execute: ", e>>, icon |-> "exclamationmark.triangle",
     score |-> SCRIPT_ITEM_SCORE, action |-> [tag |-> "CopyText", text |-> e]]

\* The result search pushes for a script filter that returned Err(e).
ScriptErrorRow(action_id, e) ==
    [id |-> <<action_id, ":", "error">>, title |-> "Script Error",
     subtitle |-> <<"Failed to execute: ", e>>, icon |-> "exclamationmark.triangle",
     score |-> SCRIPT_ERROR_SCORE, action |-> [tag |-> "CopyText", text |-> e]]

\* Mutant: search walks over every action, enabled or not.
SearchedAll(acts) == 1..Len(acts)

\* actions.iter().filter(|a| a.enabled): the positions search walks over.
Searched(acts) == {p \in 1..Len(acts) : acts[p].enabled}

Tagged(p, rs) == [n \in 1..Len(rs) |-> [pos |-> p, r |-> rs[n]]]

\* One arm of the loop of search, for the action at position p: st holds the
\* results so far, each with the position of the action that produced it,
\* and the script cache.
SearchArm(acts, p, query, st, en) ==
    LET a == acts[p]
        k == a.kind
    IN  CASE k.tag = "QuickLink" ->
               LET m == match_quick_link(query, k.keyword)
                   expanded_url == Replace(k.url, QueryVar, Encode(m.val))
               IN  IF m.some
                   THEN [st EXCEPT !.results = @ \o Tagged(p,
                            <<[id |-> <<a.id, ":", m.val>>, title |-> m.val,
                               score |-> QUICK_LINK_SCORE,
                               action |-> [tag |-> "OpenUrl", url |-> expanded_url]]>>)]
                   ELSE st
          [] k.tag = "Pattern" ->
               LET m == match_pattern(k.pattern, query)
               IN  IF m.some
                   THEN [st EXCEPT !.results = @ \o Tagged(p,
                            <<create_result(a.id, k.pattern, k.action, m.val)>>)]
                   ELSE st
          [] OTHER ->
               LET m == match_quick_link(query, k.keyword)
                   x == execute_script_filter(st.cache, st.ins, k.script_path,
                                              k.extension_dir, m.val, a.id, en)
               IN  IF m.some
                   THEN [results |-> st.results \o Tagged(p,
                            IF x.ret.ok THEN x.ret.val
                            ELSE <<ScriptErrorRow(a.id, x.ret.err)>>),
                         cache |-> x.cache, ins |-> x.ins]
                   ELSE st

\* The ending handed to an arm that spawns no script.
NoEnding == [kind |-> "failed", items |-> <<>>]

\* ActionManager::search: the loop over the actions, from position p; orc
\* names how the script spawned for the action at each position ends.
RECURSIVE SearchFrom(_, _, _, _, _)
SearchFrom(acts, p, query, st, orc) ==
    IF p > Len(acts) THEN st
    ELSE SearchFrom(acts, p + 1, query,
                    IF p \in Searched(acts)
                    THEN SearchArm(acts, p, query, st,
                                   IF p \in DOMAIN orc THEN orc[p] ELSE NoEnding)
                    ELSE st,
                    orc)

\* The positions of the actions whose script a search for query may spawn.
ScriptArms(acts, query) ==
    {p \in Searched(acts) : /\ acts[p].kind.tag = "ScriptFilter"
                            /\ match_quick_link(query, acts[p].kind.keyword).some}

Oracles(acts, query) == [ScriptArms(acts, query) -> Endings]

SearchRun(query, orc) ==
    SearchFrom(actions, 1, query,
               [results |-> <<>>, cache |-> SCRIPT_CACHE, ins |-> ins], orc)

DispFrame == UNCHANGED <<now, files, spc, sarg, sret>> /\ OutsideDisp

\* ActionManager::add
DAdd(a) ==
    /\ Len(actions) < MaxActions
    /\ dStore' = Append(dStore, a)
    /\ actions' = Append(actions, a)
    /\ keyword_matcher' = rebuild_keyword_matcher(actions')
    /\ dLast' = [op |-> "add", id |-> a.id]
    /\ dRet' = Ok(TRUE)
    /\ UNCHANGED <<SCRIPT_CACHE, ins>>
    /\ DispFrame

\* ActionManager::update
DUpdate(a) ==
    LET modified == PositionById(dStore, a.id) # 0
    IN  /\ dStore' = ReplaceById(dStore, a)
        /\ actions' = IF modified THEN ReplaceById(actions, a) ELSE actions
        /\ keyword_matcher' = IF modified THEN rebuild_keyword_matcher(actions')
                              ELSE keyword_matcher
        /\ dLast' = [op |-> "update", id |-> a.id]
        /\ dRet' = Ok(modified)
        /\ UNCHANGED <<SCRIPT_CACHE, ins>>
        /\ DispFrame

\* ActionManager::remove
DRemove(id) ==
    LET modified == Len(RetainOthers(dStore, id)) # Len(dStore)
    IN  /\ dStore' = RetainOthers(dStore, id)
        /\ actions' = IF modified THEN RetainOthers(actions, id) ELSE actions
        /\ keyword_matcher' = IF modified THEN rebuild_keyword_matcher(actions')
                              ELSE keyword_matcher
        /\ dLast' = [op |-> "remove", id |-> id]
        /\ dRet' = Ok(modified)
        /\ UNCHANGED <<SCRIPT_CACHE, ins>>
        /\ DispFrame

\* ActionManager::toggle
DToggle(id) ==
    LET modified == PositionById(dStore, id) # 0
    IN  /\ dStore' = ToggleById(dStore, id)
        /\ actions' = IF modified THEN ToggleById(actions, id) ELSE actions
        /\ keyword_matcher' = rebuild_keyword_matcher(actions')
        /\ dLast' = [op |-> "toggle", id |-> id]
        /\ dRet' = Ok(modified)
        /\ UNCHANGED <<SCRIPT_CACHE, ins>>
        /\ DispFrame

\* The default actions of import_defaults, scaled to one quick link.
Defaults == <<[id |-> "a1", enabled |-> TRUE, kind |-> [tag |-> "QuickLink", keyword |-> <<"g">>, url |-> <<"/">> \o QueryVar]]>>

\* The loop of import_defaults: add each default whose id no action has.
RECURSIVE ImportFrom(_, _)
ImportFrom(acts, n) ==
    IF n > Len(Defaults) THEN acts
    ELSE ImportFrom(IF PositionById(acts, Defaults[n].id) = 0
                    THEN Append(acts, Defaults[n]) ELSE acts, n + 1)

\* ActionManager::import_defaults
DImportDefaults ==
    /\ Len(ImportFrom(actions, 1)) <= MaxActions
    /\ actions' = ImportFrom(actions, 1)
    /\ dStore' = dStore \o SubSeq(actions', Len(actions) + 1, Len(actions'))
    /\ keyword_matcher' = IF actions' = actions THEN keyword_matcher
                          ELSE rebuild_keyword_matcher(actions')
    /\ dLast' = [op |-> "import_defaults", id |-> "-"]
    /\ dRet' = Ok(TRUE)
    /\ UNCHANGED <<SCRIPT_CACHE, ins>>
    /\ DispFrame

\* ActionManager::search
DSearch(query) ==
    /\ \E orc \in Oracles(actions, query) :
          LET out == SearchRun(query, orc)
          IN  /\ dRet' = out.results
              /\ SCRIPT_CACHE' = out.cache
              /\ ins' = out.ins
    /\ dLast' = [op |-> "search", id |-> "-"]
    /\ UNCHANGED <<actions, dStore, keyword_matcher>>
    /\ DispFrame

\* ActionManager::new on a path without a file.
DispInit ==
    /\ dStore = <<>>
    /\ actions = <<>>
    /\ keyword_matcher = None
    /\ dRet = Ok(TRUE)
    /\ dLast = [op |-> "new", id |-> "-"]

(***************************************************************************)
(* The search engine: search_engine/src/lib.rs, with the in-memory Indexer *)
(* and the index and generation of the File Indexer it reads.              *)
(***************************************************************************)
\* The byte a character is stored as.
Byte(c) == CASE c = "a" -> 97 [] c = "b" -> 98 [] c = "c" -> 99 [] OTHER -> 32

\* str::cmp: the order of strings, byte by byte.
RECURSIVE NameLess(_, _)
NameLess(s, t) ==
    IF t = <<>> THEN FALSE
    ELSE IF s = <<>> THEN TRUE
    ELSE IF Head(s) # Head(t) THEN Byte(Head(s)) < Byte(Head(t))
    ELSE NameLess(Tail(s), Tail(t))

\* The positions (from 0) at which the external matcher finds the query in
\* the candidate: the leftmost occurrence of the query as a subsequence, or
\* None.  from is the position the scan is at, acc the positions found.
RECURSIVE Indices(_, _, _, _)
Indices(candidate, query, from, acc) ==
    IF query = <<>> THEN Some(acc)
    ELSE LET p == Position(candidate, from, Head(query))
         IN  IF p = 0 THEN None
             ELSE Indices(candidate, Tail(query), p + 1, Append(acc, p - 1))

\* The score of the external matcher: its score per matched character.
BaseScore(candidate, query) == 16 * Len(query)

\* FuzzyMatcher::calculate_bonus
calculate_bonus(candidate, query, base_score, indices) ==
    LET exact == IF candidate = query THEN 10000 ELSE 0
        prefix == IF StartsWith(candidate, query) THEN 5000 ELSE 0
        first == IF indices # <<>> /\ indices[1] = 0 THEN 2000 ELSE 0
        consecutive == Cardinality({i \in 1..Len(indices) - 1 :
                                        indices[i + 1] = indices[i] + 1})
        length_penalty == (Len(candidate) - Len(query)) * 10
    IN  base_score + exact + prefix + first + consecutive * 100 - length_penalty

\* FuzzyMatcher::match_with_pattern: the score of a candidate that matches.
match_with_pattern(candidate, query) ==
    LET m == Indices(candidate, query, 1, <<>>)
    IN  IF m.some
        THEN Some(calculate_bonus(candidate, query, BaseScore(candidate, query), m.val))
        ELSE None

\* The items the model adds to the in-memory Indexer and the entries the
\* File Indexer holds.
ItemCatalogue ==
    {[id |-> "i1", name |-> <<"a">>], [id |-> "i2", name |-> <<"a", "b">>],
     [id |-> "i3", name |-> <<"a", "c">>]}

FileCatalogue == {[id |-> "/f1", name |-> <<"a", "b">>]}

SearchQueries == {<<"a">>, <<"b">>}

Limits == 0..MaxLimit

\* The match tuples of the candidates cs for a query.
Matches(cs, query) ==
    {[id |-> c.id, name |-> c.name, score |-> match_with_pattern(c.name, query).val] :
        c \in {x \in cs : match_with_pattern(x.name, query).some}}

\* Ord for HeapItem: by score, then by name reversed.
HeapLess(a, b) ==
    a.score < b.score \/ (a.score = b.score /\ NameLess(b.name, a.name))

\* Mutant: the heap orders its items by score alone.
LeastByScore(h) == {m \in h : \A y \in h : ~(y.score < m.score)}

\* The items BinaryHeap<Reverse<HeapItem>>::pop may remove: the least ones.
Least(h) == {m \in h : \A y \in h : ~HeapLess(y, m)}

\* heap.push(item); if heap.len() > limit { heap.pop(); }: the heaps that
\* may result.
HeapPushPop(h, item, limit) ==
    LET pushed == h \cup {item}
    IN  IF Cardinality(pushed) > limit
        THEN {pushed \ {m} : m \in Least(pushed)}
        ELSE {pushed}

\* The comparator of the sorts and of select_nth: score descending, then
\* name ascending.
Before(a, b) ==
    a.score > b.score \/ (a.score = b.score /\ NameLess(a.name, b.name))

\* The orders in which a collection can be produced.
Perms(S) ==
    {p \in [1..Cardinality(S) -> S] : \A x \in S : \E i \in 1..Cardinality(S) : p[i] = x}

\* sort_unstable_by: the arrangements of S that are sorted.
SortUnstable(S) ==
    {p \in Perms(S) : \A i, j \in 1..Cardinality(S) : i < j => ~Before(p[j], p[i])}

\* select_nth_unstable_by(n): the arrangements of S in which the item at
\* index n (from 0) has no better item after it and no worse item before.
SelectNth(S, n) ==
    {p \in Perms(S) : /\ \A i \in 1..n : ~Before(p[n + 1], p[i])
                      /\ \A j \in n + 2..Cardinality(S) : ~Before(p[j], p[n + 1])}

\* if limit < matches.len() { select_nth_unstable_by(limit); truncate(limit) }
\* the sets of matches that may be kept.
VecKept(S, limit) ==
    IF limit < Cardinality(S)
    THEN {{p[i] : i \in 1..limit} : p \in SelectNth(S, limit)}
    ELSE {S}

\* The loop of the heap strategy over the matches still to visit, in any
\* order: the heaps it may end with.
RECURSIVE HeapRuns(_, _, _)
HeapRuns(rest, h, limit) ==
    IF rest = {} THEN {h}
    ELSE UNION {UNION {HeapRuns(rest \ {c}, h2, limit) : h2 \in HeapPushPop(h, c, limit)} :
                  c \in rest}

\* The result lists of the strategy with the bounded heap.
HeapResults(ms, limit) ==
    UNION {SortUnstable(h) : h \in HeapRuns(ms, {}, limit)}

\* The result lists of the strategy with select_nth and sort.
VecResults(ms, limit) ==
    UNION {SortUnstable(k) : k \in VecKept(ms, limit)}

\* The result lists an uncached search may compute from the match set ms.
Computed(ms, limit) ==
    IF limit < HEAP_THRESHOLD THEN HeapResults(ms, limit) ELSE VecResults(ms, limit)

\* cached.iter().take(limit)
Take(s, limit) == SubSeq(s, 1, IF limit < Len(s) THEN limit ELSE Len(s))

\* The candidates a search reads: the items of the Indexer and, with a File
\* Indexer attached, its entries.
Candidates == indexItems \cup (IF fiAttached THEN fiFiles ELSE {})

\* Mutant: a changed generation is recorded and the cache is kept.
InvalidatedKept(c) == c

\* invalidate_file_cache
Invalidated(c) == <<>>

\* check_and_invalidate_cache: the cache it leaves.
CheckedCache ==
    IF fiAttached /\ fiGen # file_indexer_generation THEN Invalidated(cache) ELSE cache

\* The entry a search stores.  History: fresh, the index has not changed
\* since the results were computed; at, the generation of the File Indexer
\* when they were computed.
SearchPut(c, query, results) ==
    LET e == [key |-> query, results |-> results, fresh |-> TRUE, at |-> fiGen]
        i == LruIndex(c, query)
    IN  IF i # 0 THEN <<e>> \o LruWithout(c, i)
        ELSE IF Len(c) >= SEARCH_CACHE_SIZE
             THEN <<e>> \o SubSeq(c, 1, SEARCH_CACHE_SIZE - 1)
             ELSE <<e>> \o c

Stale(c) == [i \in 1..Len(c) |-> [c[i] EXCEPT !.fresh = FALSE]]

NoSearch == [query |-> <<>>, limit |-> 0, how |-> "-", dropped |-> {}, ret |-> Ok(<<>>)]

\* The keys of the entries check_and_invalidate_cache drops.
Dropped == {cache[i].key : i \in 1..(Len(cache) - Len(CheckedCache))}

SearchFrame == UNCHANGED <<storeVars, scriptVars, dispVars, topkVars, laterVars>>

\* SearchEngine::search with an empty query: it returns before it reads
\* the limit or the generation.
SearchEmpty(limit) ==
    /\ sOut' = [query |-> <<>>, limit |-> 0, how |-> "error", dropped |-> {},
                ret |-> Err("QueryTooShort")]
    /\ UNCHANGED <<indexItems, fiFiles, fiGen, fiAttached, cache, file_indexer_generation>>
    /\ SearchFrame

\* SearchEngine::search: the cache is checked against the generation, then
\* the query is answered from the cache or computed and cached.
Search(query, limit) ==
    LET c == CheckedCache
        i == LruIndex(c, query)
    IN  /\ query # <<>>
        /\ file_indexer_generation' = IF fiAttached THEN fiGen ELSE file_indexer_generation
        /\ IF i # 0
           THEN /\ cache' = LruGet(c, query)
                /\ sOut' = [query |-> query, limit |-> limit,
                            how |-> IF c[i].fresh THEN "cached" ELSE "cached-stale",
                            dropped |-> Dropped,
                            ret |-> Ok(Take(c[i].results, limit))]
           ELSE \E results \in Computed(Matches(Candidates, query), limit) :
                   /\ cache' = SearchPut(c, query, results)
                   /\ sOut' = [query |-> query, limit |-> limit, how |-> "computed",
                               dropped |-> Dropped, ret |-> Ok(results)]
        /\ UNCHANGED <<indexItems, fiFiles, fiGen, fiAttached>>
        /\ SearchFrame

\* Indexer::add_item through SearchEngine::indexer().
IndexerAdd(item) ==
    /\ indexItems' = {x \in indexItems : x.id # item.id} \cup {item}
    /\ cache' = IF indexItems' # indexItems THEN Stale(cache) ELSE cache
    /\ sOut' = NoSearch
    /\ UNCHANGED <<fiFiles, fiGen, fiAttached, file_indexer_generation>>
    /\ SearchFrame

\* Indexer::remove_item through SearchEngine::indexer().
IndexerRemove(id) ==
    /\ indexItems' = {x \in indexItems : x.id # id}
    /\ cache' = IF indexItems' # indexItems THEN Stale(cache) ELSE cache
    /\ sOut' = NoSearch
    /\ UNCHANGED <<fiFiles, fiGen, fiAttached, file_indexer_generation>>
    /\ SearchFrame

\* FileIndexer::handle_event for a Create or Modify of an existing file.
FileUpsert(f) ==
    /\ fiGen < MaxGen
    /\ fiFiles' = {x \in fiFiles : x.id # f.id} \cup {f}
    /\ fiGen' = fiGen + 1
    /\ cache' = IF fiAttached /\ fiFiles' # fiFiles THEN Stale(cache) ELSE cache
    /\ sOut' = NoSearch
    /\ UNCHANGED <<indexItems, fiAttached, file_indexer_generation>>
    /\ SearchFrame

\* FileIndexer::handle_event for a Remove: the generation moves only when
\* an entry was removed.
FileRemove(f) ==
    /\ fiGen < MaxGen
    /\ fiFiles' = {x \in fiFiles : x.id # f.id}
    /\ fiGen' = IF fiFiles' # fiFiles THEN fiGen + 1 ELSE fiGen
    /\ cache' = IF fiAttached /\ fiFiles' # fiFiles THEN Stale(cache) ELSE cache
    /\ sOut' = NoSearch
    /\ UNCHANGED <<indexItems, fiAttached, file_indexer_generation>>
    /\ SearchFrame

\* SearchEngine::set_file_indexer
SetFileIndexer ==
    /\ ~fiAttached
    /\ fiAttached' = TRUE
    /\ cache' = IF fiFiles # {} THEN Stale(cache) ELSE cache
    /\ sOut' = NoSearch
    /\ UNCHANGED <<indexItems, fiFiles, fiGen, file_indexer_generation>>
    /\ SearchFrame

\* SearchEngine::new, and FileIndexer::new beside it.
SearchInit ==
    /\ indexItems = {}
    /\ fiFiles = {}
    /\ fiGen = 0
    /\ fiAttached = FALSE
    /\ cache = <<>>
    /\ file_indexer_generation = 0
    /\ sOut = NoSearch

(***************************************************************************)
(* The top-K selection of SearchEngine::search, step by step, for one      *)
(* uncached search.                                                        *)
(***************************************************************************)
TopKFrame == UNCHANGED <<storeVars, scriptVars, dispVars, searchVars, laterVars>>

\* let use_heap = limit < HEAP_THRESHOLD, and the choice between the
\* sequential and the parallel scan of the items.
TkStart ==
    /\ tpc = "start"
    /\ tmode' = IF tlimit < HEAP_THRESHOLD THEN "heap"
                ELSE IF tcount >= PARALLEL_THRESHOLD THEN "par" ELSE "seq"
    /\ tpc' = IF tlimit < HEAP_THRESHOLD THEN "heap"
              ELSE IF tcount >= PARALLEL_THRESHOLD THEN "par" ELSE "vec"
    /\ todo' = tms
    /\ UNCHANGED <<tms, tcount, tlimit, theap, tvec, tkept, tres>>
    /\ TopKFrame

\* One turn of the loops of the heap strategy, for a candidate that matches.
TkHeapVisit ==
    /\ tpc = "heap"
    /\ \E c \in todo :
          /\ todo' = todo \ {c}
          /\ theap' \in HeapPushPop(theap, c, tlimit)
    /\ UNCHANGED <<tpc, tmode, tms, tcount, tlimit, tvec, tkept, tres>>
    /\ TopKFrame

\* heap.into_iter().collect() and the sort of the results.
TkHeapSort ==
    /\ tpc = "heap"
    /\ todo = {}
    /\ tres' \in SortUnstable(theap)
    /\ tpc' = "done"
    /\ UNCHANGED <<tmode, tms, tcount, tlimit, todo, theap, tvec, tkept>>
    /\ TopKFrame

\* par_bridge().filter_map().collect(): the matches in any order.
TkVecCollect ==
    /\ tpc = "par"
    /\ tvec' \in Perms(todo)
    /\ todo' = {}
    /\ tpc' = "vec"
    /\ UNCHANGED <<tmode, tms, tcount, tlimit, theap, tkept, tres>>
    /\ TopKFrame

\* One turn of the sequential loops: m.push of a candidate that matches.
TkVecPush ==
    /\ tpc = "vec"
    /\ \E c \in todo :
          /\ todo' = todo \ {c}
          /\ tvec' = Append(tvec, c)
    /\ UNCHANGED <<tpc, tmode, tms, tcount, tlimit, theap, tkept, tres>>
    /\ TopKFrame

\* select_nth_unstable_by and truncate, when limit < matches.len().
TkVecSelect ==
    /\ tpc = "vec"
    /\ todo = {}
    /\ tkept' \in VecKept(Range(tvec), tlimit)
    /\ tpc' = "sort"
    /\ UNCHANGED <<tmode, tms, tcount, tlimit, todo, theap, tvec, tres>>
    /\ TopKFrame

\* matches.sort_unstable_by
TkVecSort ==
    /\ tpc = "sort"
    /\ tres' \in SortUnstable(tkept)
    /\ tpc' = "done"
    /\ UNCHANGED <<tmode, tms, tcount, tlimit, todo, theap, tvec, tkept>>
    /\ TopKFrame

\* No search is being followed step by step.
TopKIdle ==
    /\ tpc = "off"
    /\ tmode = "-"
    /\ tms = {}
    /\ tcount = 0
    /\ tlimit = 0
    /\ todo = {}
    /\ theap = {}
    /\ tvec = <<>>
    /\ tkept = {}
    /\ tres = <<>>

\* An uncached search starts for some query and limit, over some items of
\* the Indexer and some entries of the File Indexer.
TopKInit ==
    \E items \in SUBSET ItemCatalogue, fs \in SUBSET FileCatalogue,
       q \in SearchQueries, l \in Limits :
          /\ tpc = "start"
          /\ tmode = "-"
          /\ tms = Matches(items \cup fs, q)
          /\ tcount = Cardinality(items)
          /\ tlimit = l
          /\ todo = {}
          /\ theap = {}
          /\ tvec = <<>>
          /\ tkept = {}
          /\ tres = <<>>

(***************************************************************************)
(* Single calls of the pure functions of the library.                      *)
(***************************************************************************)
\* The strings over the alphabet A of at most n characters.
Strs(A, n) == UNION {[1..k -> A] : k \in 0..n}

NoCallYet == [f |-> "-"]

NoRet == [done |-> FALSE]

CoreFrame == UNCHANGED <<coreVars, kmcVars, childVars, indexerVars, refreshVars, moreVars>>

\* No function is being called.
CallIdle == callArgs = NoCallYet /\ callRet = NoRet

\* The tokens of the patterns of the model: literals, placeholders, a
\* placeholder before and after a literal, two placeholders of one name and
\* of two names, and a brace that is not closed.
PatTokens ==
    {<<"g">>, <<"{", "x", "}">>, <<"{", "y", "}">>, <<"g", "{", "x", "}">>,
     <<"{", "x", "}", "g">>, <<"{", "x", "}", "g", "{", "x", "}">>,
     <<"{", "x", "}", "g", "{", "y", "}">>, <<"{", "x", "}", "{", "y", "}">>,
     <<"{", "x">>, <<"g", "h">>}

PatSeps == {<<" ">>, <<" ", " ">>}

\* The patterns of n tokens.
RECURSIVE PatternsOf(_)
PatternsOf(n) ==
    IF n = 1 THEN PatTokens
    ELSE {p \o sep \o t : p \in PatternsOf(n - 1), sep \in PatSeps, t \in PatTokens}

Patterns == UNION {PatternsOf(n) : n \in 1..MaxTokens}

PatInputs == Strs({"g", "h", " "}, MaxInput)

\* A caller is about to call match_pattern(pattern, input).
PatternInit ==
    /\ callArgs \in {[f |-> "match_pattern", pattern |-> p, input |-> q] :
                       p \in Patterns, q \in PatInputs}
    /\ callRet = NoRet

\* match_pattern(pattern, input) and, on Some(captures),
\* expand_template(pattern, captures).
MatchPattern ==
    /\ callArgs.f = "match_pattern"
    /\ ~callRet.done
    /\ LET m == match_pattern(callArgs.pattern, callArgs.input)
       IN  callRet' = [done |-> TRUE, ret |-> m,
                       expanded |-> IF m.some
                                    THEN expand_template(callArgs.pattern, m.val)
                                    ELSE <<>>]
    /\ UNCHANGED callArgs
    /\ CoreFrame

KwQueries == Strs({"g", "h", " ", "\t", "\n"}, MaxInput)

KwKeywords == Strs({"g", "h", " "}, MaxKeyword)

\* A caller is about to call match_quick_link(query, keyword).
KeywordInit ==
    /\ callArgs \in {[f |-> "match_quick_link", query |-> q, keyword |-> k] :
                       q \in KwQueries, k \in KwKeywords}
    /\ callRet = NoRet

\* match_quick_link(query, keyword)
MatchQuickLink ==
    /\ callArgs.f = "match_quick_link"
    /\ ~callRet.done
    /\ callRet' = [done |-> TRUE, ret |-> match_quick_link(callArgs.query, callArgs.keyword)]
    /\ UNCHANGED callArgs
    /\ CoreFrame

(***************************************************************************)
(* KeywordMatcherCache (shared_utils) beside an ActionManager.             *)
(***************************************************************************)
\* The pattern lists a pattern_builder returns.
KmcPatterns == {<<>>, <<"g">>, <<"g", "s">>}

\* build_automaton_leftmost_longest
build_automaton_leftmost_longest(patterns) ==
    IF patterns = <<>> THEN None ELSE Some(patterns)

KmcFrame == UNCHANGED <<coreVars, callVars, childVars, indexerVars, refreshVars, moreVars>>

\* KeywordMatcherCache::invalidate
KmcInvalidate ==
    /\ matcher_needs_rebuild' = TRUE
    /\ UNCHANGED <<automaton, kmcRet>>
    /\ KmcFrame

\* KeywordMatcherCache::rebuild
KmcRebuild(patterns) ==
    /\ automaton' = build_automaton_leftmost_longest(patterns)
    /\ matcher_needs_rebuild' = FALSE
    /\ UNCHANGED kmcRet
    /\ KmcFrame

\* KeywordMatcherCache::with_automaton, with f the identity.
KmcWithAutomaton ==
    /\ kmcRet' = [called |-> TRUE,
                  ret |-> IF matcher_needs_rebuild THEN None ELSE automaton]
    /\ UNCHANGED <<automaton, matcher_needs_rebuild>>
    /\ KmcFrame

\* KeywordMatcherCache::new
KmcInit ==
    /\ automaton = None
    /\ matcher_needs_rebuild = TRUE
    /\ kmcRet = [called |-> FALSE, ret |-> None]

(***************************************************************************)
(* execute_script_filter from command.spawn() to its return                *)
(* (script_filter.rs, lines 146-177 and 237-239).                          *)
(***************************************************************************)
\* The scripts of the model.  exits: the script ends by itself (a script
\* that does not, runs or blocks until it is killed); daemon: it starts a
\* background process that inherits its stdout and outlives it.
Scripts ==
    [exits : BOOLEAN, status : {0, 1}, valid : BOOLEAN, daemon : BOOLEAN]

ChildFrame == UNCHANGED <<coreVars, callVars, kmcVars, indexerVars, refreshVars, moreVars>>

\* The script ends by itself: the child becomes a zombie and its end of the
\* pipe is closed.
ChildExits ==
    /\ child = "running"
    /\ script.exits
    /\ child' = "exited"
    /\ holders' = holders \ {"child"}
    /\ exitAt' = cnow
    /\ UNCHANGED <<cpc, script, cnow, cret, retAt>>
    /\ ChildFrame

\* The background process the script left behind ends.
DaemonExits ==
    /\ "daemon" \in holders
    /\ holders' = holders \ {"daemon"}
    /\ UNCHANGED <<cpc, child, script, cnow, exitAt, cret, retAt>>
    /\ ChildFrame

\* child.wait_timeout(timeout) returns Some(status): the child has exited
\* and is reaped.
WaitSome ==
    /\ cpc = "wait_timeout"
    /\ child = "exited"
    /\ child' = "reaped"
    /\ cpc' = "read"
    /\ UNCHANGED <<script, holders, cnow, exitAt, cret, retAt>>
    /\ ChildFrame

\* child.wait_timeout(timeout) returns None: the deadline has passed with
\* the child running.
WaitNone ==
    /\ cpc = "wait_timeout"
    /\ child = "running"
    /\ cnow >= SCRIPT_TIMEOUT_MS
    /\ cpc' = "kill"
    /\ UNCHANGED <<child, script, holders, cnow, exitAt, cret, retAt>>
    /\ ChildFrame

\* let _ = child.kill()
Kill ==
    /\ cpc = "kill"
    /\ child' = IF child = "running" THEN "exited" ELSE child
    /\ holders' = holders \ {"child"}
    /\ cpc' = "wait"
    /\ UNCHANGED <<script, cnow, exitAt, cret, retAt>>
    /\ ChildFrame

\* let _ = child.wait(); return Err("Script timed out after 2000ms")
WaitKilled ==
    /\ cpc = "wait"
    /\ child = "exited"
    /\ child' = "reaped"
    /\ cpc' = "returned"
    /\ cret' = Err("Script timed out")
    /\ retAt' = cnow
    /\ UNCHANGED <<script, holders, cnow, exitAt>>
    /\ ChildFrame

\* out.read_to_end(&mut stdout) and what follows it: the read ends when no
\* process holds the write end of the pipe; then the status is looked at
\* and the output parsed.
ReadToEnd ==
    /\ cpc = "read"
    /\ holders = {}
    /\ cpc' = "returned"
    /\ cret' = IF script.status # 0 THEN Err("Script failed")
               ELSE IF ~script.valid THEN Err("Failed to parse JSON")
               ELSE Ok("results")
    /\ retAt' = cnow
    /\ UNCHANGED <<child, script, holders, cnow, exitAt>>
    /\ ChildFrame

\* Time passes.  It does not pass while the call has a step to take that
\* waits for nothing: wait_timeout returns when the child has exited and
\* at the deadline, kill and wait return at once, and the read ends when
\* the pipe is closed.
ChildTick ==
    /\ cnow + ChildTickMs <= ChildMaxTime
    /\ \/ cpc = "wait_timeout" /\ child = "running" /\ cnow < SCRIPT_TIMEOUT_MS
       \/ cpc = "read" /\ holders # {}
       \/ cpc = "returned"
    /\ cnow' = cnow + ChildTickMs
    /\ UNCHANGED <<cpc, child, script, holders, exitAt, cret, retAt>>
    /\ ChildFrame

\* No call is followed.
ChildIdle ==
    /\ cpc = "returned"
    /\ child = "reaped"
    /\ script = [exits |-> TRUE, status |-> 0, valid |-> TRUE, daemon |-> FALSE]
    /\ holders = {}
    /\ cnow = 0
    /\ exitAt = -1
    /\ cret = Ok("results")
    /\ retAt = -1

\* command.spawn() has just returned the child.
ChildInit ==
    /\ cpc = "wait_timeout"
    /\ child = "running"
    /\ script \in Scripts
    /\ holders = {"child"} \cup (IF script.daemon THEN {"daemon"} ELSE {})
    /\ cnow = 0
    /\ exitAt = -1
    /\ cret = Spawned
    /\ retAt = -1

(***************************************************************************)
(* save_to_disk and load_from_disk as free functions on one path           *)
(* (storage_utils/src/lib.rs, lines 113-141), called by one thread, with   *)
(* files that other programs left at <path> and <path>.tmp.                *)
(***************************************************************************)
\* The vectors saved.
ArchiveVecs == Strs(Items, MaxLen)

\* File contents found on disk: 0 is a byte that is no header and no
\* record.
FoundBytes == Strs({-2, -1, 0, 1}, MaxLen)

\* What an earlier run left at <path>.tmp: longer than some archives.
StaleBytes == [1..(MaxLen + 1) -> {0, 1}]

\* The thread that calls the two functions.
Saver == "c1"

ArchiveFrame ==
    /\ UNCHANGED <<arcs, cur, snaps, pc, chan, wpc, wdata, acked, nOps, lastOp,
                   hist, saveFailed, flushed>>
    /\ UNCHANGED <<scriptVars, dispVars, searchVars, topkVars, kmcVars, childVars,
                   indexerVars, refreshVars, moreVars>>

Between == IF callArgs.f = "-" THEN TRUE ELSE callArgs.at = "idle"

SavesSoFar == IF callArgs.f = "-" THEN 0 ELSE callArgs.saves

\* save_to_disk(path, v): rkyv::to_bytes, open <path>.tmp.
SaveToDiskOpen(v) ==
    /\ Between
    /\ SavesSoFar < MaxOps
    /\ OpenTmp(Saver)
    /\ callArgs' = [f |-> "save_to_disk", v |-> v, at |-> "write",
                    after |-> callArgs.f, saves |-> SavesSoFar]
    /\ UNCHANGED <<fsPath, callRet>>
    /\ ArchiveFrame

\* write_all, flush, drop(writer)
SaveToDiskWrite ==
    /\ callArgs.f = "save_to_disk" /\ callArgs.at = "write"
    /\ WriteTmp(Saver, ToBytes(callArgs.v))
    /\ callArgs' = [callArgs EXCEPT !.at = "rename"]
    /\ UNCHANGED <<fsPath, fsTmp, callRet>>
    /\ ArchiveFrame

\* fs::rename(temp_path, path)?; Ok(())
SaveToDiskRename ==
    /\ callArgs.f = "save_to_disk" /\ callArgs.at = "rename"
    /\ RenameTmp
    /\ callRet' = IF RenameOk THEN Ok(<<>>) ELSE Err("rename")
    /\ callArgs' = [callArgs EXCEPT !.at = "idle", !.saves = @ + 1]
    /\ UNCHANGED fd
    /\ ArchiveFrame

\* load_from_disk(path): fs::read(path)? fails when there is no file.
LoadFromDisk ==
    /\ Between
    /\ callRet' = IF fsPath = 0 THEN Err("NotFound")
                  ELSE Ok(LoadFromBytes(PathBytes))
    /\ callArgs' = [f |-> "load_from_disk", at |-> "idle", after |-> callArgs.f,
                    v |-> IF callArgs.f = "-" THEN <<>> ELSE callArgs.v,
                    saves |-> SavesSoFar]
    /\ UNCHANGED <<fsPath, fsTmp, ino, fd>>
    /\ ArchiveFrame

\* Another program leaves the bytes b at <path>, between two calls.
FoundAtPath(b) ==
    /\ Between
    /\ LET n == IF fsPath # 0 THEN fsPath ELSE FreshId(DOMAIN ino)
       IN /\ fsPath' = n
          /\ ino' = [i \in DOMAIN ino \cup {n} |-> IF i = n THEN b ELSE ino[i]]
    /\ callArgs' = [f |-> "found", at |-> "idle", after |-> callArgs.f,
                    v |-> b, saves |-> SavesSoFar]
    /\ UNCHANGED <<fsTmp, fd, callRet>>
    /\ ArchiveFrame

\* An earlier run left the bytes b at <path>.tmp.
FoundAtTmp(b) ==
    /\ callArgs.f = "-"
    /\ fsTmp = 0
    /\ LET n == FreshId(DOMAIN ino)
       IN /\ fsTmp' = n
          /\ ino' = [i \in DOMAIN ino \cup {n} |-> IF i = n THEN b ELSE ino[i]]
    /\ UNCHANGED <<fsPath, fd, callArgs, callRet>>
    /\ ArchiveFrame

(***************************************************************************)
(* search_engine::Indexer (indexer.rs, lines 38-141): the map of items and *)
(* the four counters.                                                      *)
(***************************************************************************)
ItemTypes == {"Application", "File", "Snippet", "ClipboardEntry"}

IndexedItems == [id : Items, item_type : ItemTypes]

\* `as usize` of a small signed number.
AsUsize(n) == n % USIZE_MOD

\* update_stats(item_type, delta): (counter as i32 + delta) as usize, on
\* total_items and on the counter of the kind.
update_stats(stats, item_type, delta) ==
    LET s1 == [stats EXCEPT !.total_items = AsUsize(@ + delta)]
    IN  CASE item_type = "Application" -> [s1 EXCEPT !.apps = AsUsize(@ + delta)]
          [] item_type = "File" -> [s1 EXCEPT !.files = AsUsize(@ + delta)]
          [] item_type = "Snippet" -> [s1 EXCEPT !.snippets = AsUsize(@ + delta)]
          [] OTHER -> s1

\* The Indexer as a value.
Ix(items, stats) == [items |-> items, stats |-> stats]

\* add_item: the counters move only when the id is new; the item is
\* inserted, in place of an item of the same id.
add_item(ix, item) ==
    LET is_new == item.id \notin DOMAIN ix.items
    IN  Ix([i \in DOMAIN ix.items \cup {item.id} |->
               IF i = item.id THEN item.item_type ELSE ix.items[i]],
           IF is_new THEN update_stats(ix.stats, item.item_type, 1) ELSE ix.stats)

RECURSIVE add_items(_, _)
add_items(ix, its) ==
    IF its = <<>> THEN ix
    ELSE add_items(add_item(ix, Head(its)), Tail(its))

remove_item(ix, id) ==
    IF id \in DOMAIN ix.items
    THEN Ix([i \in DOMAIN ix.items \ {id} |-> ix.items[i]],
            update_stats(ix.stats, ix.items[id], -1))
    ELSE ix

RECURSIVE remove_items(_, _)
remove_items(ix, ids) ==
    IF ids = <<>> THEN ix
    ELSE remove_items(remove_item(ix, Head(ids)), Tail(ids))

\* total_items.saturating_sub(count)
SaturatingSub(a, b) == IF a >= b THEN a - b ELSE 0

clear_by_type(ix, item_type) ==
    LET to_remove == {i \in DOMAIN ix.items : ix.items[i] = item_type}
        count == Cardinality(to_remove)
        s1 == CASE item_type = "Application" -> [ix.stats EXCEPT !.apps = 0]
                [] item_type = "File" -> [ix.stats EXCEPT !.files = 0]
                [] item_type = "Snippet" -> [ix.stats EXCEPT !.snippets = 0]
                [] OTHER -> ix.stats
    IN  Ix([i \in DOMAIN ix.items \ to_remove |-> ix.items[i]],
           [s1 EXCEPT !.total_items = SaturatingSub(@, count)])

NoStats == [total_items |-> 0, apps |-> 0, files |-> 0, snippets |-> 0]

NoItems == [i \in {} |-> "File"]

IndexerNow == Ix(indexer_items, indexer_stats)

IndexerFrame == UNCHANGED <<coreVars, callVars, kmcVars, childVars, refreshVars, moreVars>>

\* One call on the Indexer that leaves it as ix.
IndexerBecomes(ix) ==
    /\ indexer_ops < MaxIndexerOps
    /\ indexer_items' = ix.items
    /\ indexer_stats' = ix.stats
    /\ indexer_ops' = indexer_ops + 1
    /\ IndexerFrame

IxAddItem(item) == IndexerBecomes(add_item(IndexerNow, item))

IxAddItems(its) == IndexerBecomes(add_items(IndexerNow, its))

IxRemoveItem(id) == IndexerBecomes(remove_item(IndexerNow, id))

IxRemoveItems(ids) == IndexerBecomes(remove_items(IndexerNow, ids))

IxClearByType(item_type) == IndexerBecomes(clear_by_type(IndexerNow, item_type))

IxClear == IndexerBecomes(Ix(NoItems, NoStats))

\* stats()
stats ==
    <<indexer_stats.total_items, indexer_stats.apps, indexer_stats.files,
      indexer_stats.snippets>>

\* Indexer::new()
IndexerInit ==
    /\ indexer_items = NoItems
    /\ indexer_stats = NoStats
    /\ indexer_ops = 0

(***************************************************************************)
(* FileIndexer::refresh_if_needed and scan_all_directories                 *)
(* (file_indexer/src/lib.rs, lines 267-326), with the calls that change    *)
(* what it reads.                                                          *)
(***************************************************************************)
\* config.directories
Roots == {"r1", "r2"}

NoTime == [some |-> FALSE]

SomeTime(t) == [some |-> TRUE, t |-> t]

Existing == {r \in Roots : dirs[r].exists}

\* Mutant: a root whose time equals the recorded one counts as changed.
NewerOrSame(last, current) == current >= last

\* (Some(&last), Some(current)) if current > last
Newer(last, current) == current > last

\* The arms of the match on (last_scan.get(dir), current_mtime) that set
\* needs_rescan and record the time, for an existing root.
NeedsRescan(r) ==
    IF last_scan[r].some THEN Newer(last_scan[r].t, dirs[r].mtime) ELSE TRUE

RefreshFrame == UNCHANGED <<coreVars, callVars, kmcVars, childVars, indexerVars, moreVars>>

\* What a call leaves behind for the next one to find: the roots on disk,
\* config.enabled and needs_initial.
Seen == [dirs |-> dirs, enabled |-> fi_enabled, initial |-> needs_initial]

\* scan_all_directories: every root that exists is scanned; true.
ScanAll(ret_of) ==
    refreshed' = [called |-> TRUE, ret |-> ret_of, scanned |-> Existing, ran |-> TRUE,
                  saw |-> Seen']

NoScan ==
    refreshed' = [called |-> TRUE, ret |-> FALSE, scanned |-> {}, ran |-> FALSE,
                  saw |-> Seen']

refresh_if_needed ==
    /\ UNCHANGED <<fi_enabled, dirs>>
    /\ IF ~fi_enabled
       THEN /\ UNCHANGED <<needs_initial, last_scan>>
            /\ NoScan
       ELSE IF needs_initial
       THEN /\ needs_initial' = FALSE
            /\ UNCHANGED last_scan
            /\ ScanAll(TRUE)
       ELSE LET stale == {r \in Existing : NeedsRescan(r)}
            IN  /\ last_scan' = [r \in Roots |->
                                   IF r \in stale THEN SomeTime(dirs[r].mtime)
                                   ELSE last_scan[r]]
                /\ UNCHANGED needs_initial
                /\ IF stale # {} THEN ScanAll(TRUE) ELSE NoScan
    /\ RefreshFrame

\* enable(): config.enabled = true; start_indexing() scans in the
\* background when the index is empty and sets needs_initial otherwise.
Enable(index_empty) ==
    /\ fi_enabled' = TRUE
    /\ needs_initial' = IF index_empty THEN needs_initial ELSE TRUE
    /\ UNCHANGED <<last_scan, dirs, refreshed>>
    /\ RefreshFrame

\* disable()
Disable ==
    /\ fi_enabled' = FALSE
    /\ UNCHANGED <<needs_initial, last_scan, dirs, refreshed>>
    /\ RefreshFrame

\* Something is created in or removed from the root r: its modification
\* time moves on.
Touch(r) ==
    /\ dirs[r].exists
    /\ dirs[r].mtime < MaxMtime
    /\ dirs' = [dirs EXCEPT ![r].mtime = @ + 1]
    /\ UNCHANGED <<fi_enabled, needs_initial, last_scan, refreshed>>
    /\ RefreshFrame

\* The root r is removed, or created again.
RemoveRoot(r) ==
    /\ dirs[r].exists
    /\ dirs' = [dirs EXCEPT ![r].exists = FALSE]
    /\ UNCHANGED <<fi_enabled, needs_initial, last_scan, refreshed>>
    /\ RefreshFrame

CreateRoot(r) ==
    /\ ~dirs[r].exists
    /\ dirs[r].mtime < MaxMtime
    /\ dirs' = [dirs EXCEPT ![r] = [exists |-> TRUE, mtime |-> @.mtime + 1]]
    /\ UNCHANGED <<fi_enabled, needs_initial, last_scan, refreshed>>
    /\ RefreshFrame

\* FileIndexer::new with the default configuration, and two roots on disk.
RefreshInit ==
    /\ fi_enabled = FALSE
    /\ needs_initial = TRUE
    /\ last_scan = [r \in Roots |-> NoTime]
    /\ dirs = [r \in Roots |-> [exists |-> TRUE, mtime |-> 0]]
    /\ refreshed = [called |-> FALSE, ret |-> FALSE, scanned |-> {}, ran |-> FALSE,
                    saw |-> Seen]

(***************************************************************************)
(* FileIndexer: handle_event on the watcher thread, and a scan             *)
(* (scan_directory's flush_batch, then the generation bump of              *)
(* scan_all_directories / start_indexing) on another thread                *)
(* (file_indexer/src/lib.rs, lines 198-263, 307-326, 378-389, 397-431).    *)
(***************************************************************************)
\* The paths under the watched root: two files whose names differ in case
\* only, a file with an extension that is not accepted, a name without
\* extension.
WatchPaths == {<<"a", ".", "t">>, <<"A", ".", "T">>, <<"c", ".", "b">>, <<"d">>}

\* config.extensions
Extensions == {<<"t">>}

\* char::to_lowercase / to_ascii_lowercase on the characters of the model.
Lower(c) ==
    CASE c = "A" -> "a"
      [] c = "B" -> "b"
      [] c = "T" -> "t"
      [] OTHER -> c

LowerStr(s) == [i \in 1..Len(s) |-> Lower(s[i])]

\* normalize_path (target_os = "macos"): NFD, which leaves ASCII alone, and
\* to_lowercase.
normalize_path(path) == LowerStr(path)

\* Path::extension: what follows the last dot of the file name, when a dot
\* follows at least one character.
PathExtension(path) ==
    LET dots == {i \in 2..Len(path) : path[i] = "."}
    IN  IF dots = {} THEN None
        ELSE LET d == CHOOSE i \in dots : \A j \in dots : j <= i
             IN  Some(SubSeq(path, d + 1, Len(path)))

\* Mutant: the extension is compared as it is written.
AllowedExact(allowed, ext) == allowed = ext

\* allowed.eq_ignore_ascii_case(ext)
Allowed(allowed, ext) == LowerStr(allowed) = LowerStr(ext)

\* Mutant: an upsert bumps the generation only for a new key.
UpsertGenerationIfNew(is_new, g) == IF is_new THEN g + 1 ELSE g

\* generation.fetch_add(1) after idx.insert(key, entry)
UpsertGeneration(is_new, g) == g + 1

\* The index with its two atomics, as a value.
Fi(idx, count, gen) == [index |-> idx, file_count |-> count, generation |-> gen]

FiNow == Fi(index, file_count, generation)

Without(idx, key) == [k \in DOMAIN idx \ {key} |-> idx[k]]

With(idx, key, path) ==
    [k \in DOMAIN idx \cup {key} |-> IF k = key THEN path ELSE idx[k]]

\* idx.remove(&normalized_key): file_count and generation move only when
\* an entry was removed.
RemoveKey(fi, path) ==
    LET key == normalize_path(path)
    IN  IF key \in DOMAIN fi.index
        THEN LET idx == Without(fi.index, key)
             IN  Fi(idx, Cardinality(DOMAIN idx), fi.generation + 1)
        ELSE fi

\* The body of the loop of handle_event for one path of the event.
handle_path(fi, kind, path, dk) ==
    CASE kind = "Remove" -> RemoveKey(fi, path)
      [] kind \in {"Create", "Modify"} ->
            IF dk[path] = "absent" THEN RemoveKey(fi, path)
            ELSE IF dk[path] # "file" THEN fi
            ELSE LET ext == PathExtension(path)
                 IN  IF ~ext.some THEN fi
                     ELSE IF ~\E allowed \in Extensions : Allowed(allowed, ext.val)
                     THEN fi
                     ELSE LET key == normalize_path(path)
                              is_new == key \notin DOMAIN fi.index
                              idx == With(fi.index, key, path)
                          IN  Fi(idx,
                                 IF is_new THEN Cardinality(DOMAIN idx)
                                 ELSE fi.file_count,
                                 UpsertGeneration(is_new, fi.generation))
      [] OTHER -> fi

\* handle_event: for path in &event.event.paths
RECURSIVE handle_event(_, _, _, _)
handle_event(fi, kind, paths, dk) ==
    IF paths = <<>> THEN fi
    ELSE handle_event(handle_path(fi, kind, Head(paths), dk), kind, Tail(paths), dk)

EventKinds == {"Remove", "Create", "Modify", "Access"}

\* The debounced events: of one path, and of two.
WatchEvents ==
    [kind : EventKinds,
     paths : {<<p>> : p \in WatchPaths}
             \cup {<<q, p>> : q \in {<<"a", ".", "t">>},
                                          p \in {<<"A", ".", "T">>}}]

OpsDone == handled.n

\* The watcher thread handles one event; the index is as the call leaves it.
HandleEvent(ev) ==
    /\ OpsDone < MaxWatchOps
    /\ LET fi == handle_event(FiNow, ev.kind, ev.paths, disk)
       IN  /\ index' = fi.index
           /\ file_count' = fi.file_count
           /\ generation' = fi.generation
    /\ handled' = [op |-> "event", ev |-> ev, n |-> OpsDone + 1, from |-> FiNow]
    /\ UNCHANGED <<disk, scanning, observed>>
    /\ WatchFrame

\* A scan begins: refresh_if_needed's scan_all_directories, or the thread
\* of start_indexing.
ScanStart ==
    /\ ~scanning.on
    /\ OpsDone < MaxWatchOps
    /\ scanning' = [on |-> TRUE, flushes |-> 0, from |-> FiNow]
    /\ UNCHANGED <<disk, index, file_count, generation, handled, observed>>
    /\ WatchFrame

\* flush_batch, with a batch of one entry: a file with an accepted
\* extension that the scan has come by.
ScanFlush(path) ==
    /\ scanning.on
    /\ scanning.flushes < MaxFlushes
    /\ disk[path] = "file"
    /\ LET ext == PathExtension(path)
       IN  ext.some /\ \E allowed \in Extensions : Allowed(allowed, ext.val)
    /\ index' = With(index, normalize_path(path), path)
    /\ file_count' = Cardinality(DOMAIN index')
    /\ scanning' = [scanning EXCEPT !.flushes = @ + 1]
    /\ UNCHANGED <<disk, generation, handled, observed>>
    /\ WatchFrame

\* The scan is over: generation.fetch_add(1).
ScanDone ==
    /\ scanning.on
    /\ generation' = generation + 1
    /\ scanning' = [scanning EXCEPT !.on = FALSE]
    /\ handled' = [op |-> "scan", ev |-> [kind |-> "-", paths |-> <<>>],
                   n |-> OpsDone + 1, from |-> scanning.from]
    /\ UNCHANGED <<disk, index, file_count, observed>>
    /\ WatchFrame

\* A consumer reads generation() and get_all_files() while no scan is
\* under way, and keeps the first index it saw at each generation.
Observe ==
    /\ ~scanning.on
    /\ generation \notin DOMAIN observed
    /\ observed' = [g \in DOMAIN observed \cup {generation} |->
                       IF g = generation THEN index ELSE observed[g]]
    /\ UNCHANGED <<disk, index, file_count, generation, scanning, handled>>
    /\ WatchFrame

\* What a path of the model can be on disk: d is a directory when it is
\* there, the others are files.
KindsOf(path) == IF path = <<"d">> THEN {"absent", "dir"} ELSE {"absent", "file"}

\* The file system changes under the watched root.
DiskChange(path, to) ==
    /\ disk[path] # to
    /\ to \in KindsOf(path)
    /\ disk' = [disk EXCEPT ![path] = to]
    /\ UNCHANGED <<index, file_count, generation, scanning, handled, observed>>
    /\ WatchFrame

NoIndex == [k \in {} |-> <<>>]

\* FileIndexer::new with no stored index, under an empty root.
WatchInit ==
    /\ disk = [p \in WatchPaths |-> "absent"]
    /\ index = NoIndex
    /\ file_count = 0
    /\ generation = 0
    /\ scanning = [on |-> FALSE, flushes |-> 0, from |-> Fi(NoIndex, 0, 0)]
    /\ handled = [op |-> "-", ev |-> [kind |-> "-", paths |-> <<>>], n |-> 0,
                  from |-> Fi(NoIndex, 0, 0)]
    /\ observed = [g \in {} |-> NoIndex]

(***************************************************************************)
(* FileIndexer::scan_directory on one root (file_indexer/src/lib.rs,       *)
(* lines 328-376), over a fixed tree.                                      *)
(***************************************************************************)
Entry(parent, is_dir, name) == [parent |-> parent, is_dir |-> is_dir, name |-> name]

\* The tree under the root R: files with an accepted extension in lower and
\* upper case, one with another extension, a hidden file, a hidden
\* directory, an excluded directory, a directory d with a subdirectory e,
\* and a directory k.
ScanTree ==
    [n \in {"R", "a", "B", "c", "h", "g", "gx", "nm", "ny", "d", "da", "e", "eb",
             "k", "kc"} |->
        CASE n = "R" -> Entry("-", TRUE, <<"R">>)
          [] n = "a" -> Entry("R", FALSE, <<"a", ".", "t">>)
          [] n = "B" -> Entry("R", FALSE, <<"B", ".", "T">>)
          [] n = "c" -> Entry("R", FALSE, <<"c", ".", "b">>)
          [] n = "h" -> Entry("R", FALSE, <<".", "h", ".", "t">>)
          [] n = "g" -> Entry("R", TRUE, <<".", "g">>)
          [] n = "gx" -> Entry("g", FALSE, <<"x", ".", "t">>)
          [] n = "nm" -> Entry("R", TRUE, <<"n", "m">>)
          [] n = "ny" -> Entry("nm", FALSE, <<"y", ".", "t">>)
          [] n = "d" -> Entry("R", TRUE, <<"d">>)
          [] n = "da" -> Entry("d", FALSE, <<"a", ".", "t">>)
          [] n = "e" -> Entry("d", TRUE, <<"e">>)
          [] n = "eb" -> Entry("e", FALSE, <<"b", ".", "t">>)
          [] n = "k" -> Entry("R", TRUE, <<"k">>)
          [] OTHER -> Entry("k", FALSE, <<"c", ".", "t">>)]

\* config.exclude_dirs
ExcludeDirs == {<<"n", "m">>}

\* fs::read_dir(&current)
ReadDir(current) == {n \in DOMAIN ScanTree : ScanTree[n].parent = current}

\* The two `continue`s at the head of the loop over the entries.
Skipped(n, config) ==
    \/ Head(ScanTree[n].name) = "." /\ ~config.index_hidden
    \/ ScanTree[n].name \in ExcludeDirs

\* The file branch: an extension that is allowed.
Indexable(n) ==
    /\ ~ScanTree[n].is_dir
    /\ LET ext == PathExtension(ScanTree[n].name)
       IN  ext.some /\ \E allowed \in Extensions : Allowed(allowed, ext.val)

\* The orders in which the directories of a set can be pushed.
Orders(S) == {o \in [1..Cardinality(S) -> S] : \A i, j \in DOMAIN o : i # j => o[i] # o[j]}

\* flush_batch
Flushed(idx, batch) == idx \cup batch

\* if depth >= config.max_depth || file_count >= config.max_files { break }
PopStops(depth, count, config) ==
    depth >= config.max_depth \/ count >= config.max_files

\* The loop has ended: the batch that is left is flushed.
ScanEnds(batch) ==
    /\ sc_index' = Flushed(sc_index, batch)
    /\ sc_count' = IF batch # {} THEN Cardinality(sc_index') ELSE sc_count
    /\ sc_batch' = {}
    /\ sc_pc' = "done"

\* One turn of `while let Some((current, depth)) = stack.pop()`: the break,
\* or the directory is read, its files are pushed to the batch (which is
\* flushed each time it holds BATCH_SIZE entries, so that the entries read
\* last stay in it) and its directories are pushed on the stack, in the
\* order read_dir gives them.
ScanPop ==
    /\ sc_pc = "loop"
    /\ sc_stack # <<>>
    /\ LET top == sc_stack[Len(sc_stack)]
           rest == SubSeq(sc_stack, 1, Len(sc_stack) - 1)
       IN  IF PopStops(top.depth, sc_count, sc_config)
           THEN /\ ScanEnds(sc_batch)
                /\ UNCHANGED <<sc_stack, sc_read>>
           ELSE LET seen == {n \in ReadDir(top.dir) : ~Skipped(n, sc_config)}
                    subdirs == {n \in seen : ScanTree[n].is_dir}
                    found == {n \in seen : Indexable(n)}
                    all == sc_batch \cup found
                    full == Cardinality(all) >= BATCH_SIZE
                IN  /\ \E o \in Orders(subdirs) :
                          sc_stack' = rest \o [i \in DOMAIN o |->
                                                  [dir |-> o[i], depth |-> top.depth + 1]]
                    /\ sc_read' = sc_read \cup {top.dir}
                    /\ IF full
                       THEN \E left \in SUBSET found :
                               /\ Cardinality(left) = Cardinality(all) % BATCH_SIZE
                               /\ sc_batch' = left
                               /\ sc_index' = Flushed(sc_index, all \ left)
                               /\ sc_count' = Cardinality(sc_index')
                       ELSE /\ sc_batch' = all
                            /\ UNCHANGED <<sc_index, sc_count>>
                    /\ sc_pc' = "loop"
    /\ UNCHANGED sc_config
    /\ ScanFrame

\* The stack is empty.
ScanLoopEnds ==
    /\ sc_pc = "loop"
    /\ sc_stack = <<>>
    /\ ScanEnds(sc_batch)
    /\ UNCHANGED <<sc_config, sc_stack, sc_read>>
    /\ ScanFrame

ScanConfigs ==
    [max_depth : 1..MaxDepthCfg, index_hidden : BOOLEAN, max_files : {MinFilesCfg, MaxFilesCfg}]

\* No scan of the tree is followed.
ScanIdle ==
    /\ sc_config = [max_depth |-> 1, index_hidden |-> FALSE, max_files |-> MaxFilesCfg]
    /\ sc_stack = <<>>
    /\ sc_batch = {}
    /\ sc_index = {}
    /\ sc_count = 0
    /\ sc_read = {}
    /\ sc_pc = "done"

\* scan_directory(root, ...) on an empty index.
ScanInit ==
    /\ sc_config \in ScanConfigs
    /\ sc_stack = <<[dir |-> "R", depth |-> 0]>>
    /\ sc_batch = {}
    /\ sc_index = {}
    /\ sc_count = 0
    /\ sc_read = {}
    /\ sc_pc = "loop"

(***************************************************************************)
(* SnippetMatcher (snippet_matcher/src/lib.rs, lines 13-54).               *)
(***************************************************************************)
\* The triggers of the model are not empty.
Triggers == Strs({"a", "b"}, MaxTrigger) \ {<<>>}

\* The snippet at place n of a list has the content n.
SnippetLists ==
    UNION {{[i \in 1..k |-> [trigger |-> f[i][1], content |-> i, enabled |-> f[i][2]]] :
               f \in [1..k -> Triggers \X BOOLEAN]} : k \in 0..MaxSnippets}

SnippetTexts == Strs({"a", "b"}, MaxText)

\* Mutant: the disabled snippets are kept.
AllSnippets(list) == list

\* snippets.into_iter().filter(|s| s.enabled).collect()
EnabledSnippets(list) == SelectSeq(list, LAMBDA s : s.enabled)

\* The patterns of an automaton that occur in text from position s on
\* (positions from 1).
MatchingAt(patterns, text, s) ==
    {i \in 1..Len(patterns) :
        /\ s + Len(patterns[i]) - 1 <= Len(text)
        /\ SubSeq(text, s, s + Len(patterns[i]) - 1) = patterns[i]}

\* MatchKind::LeftmostLongest at one start: the longest pattern, and the
\* first of the list among the longest.
LongestAt(patterns, text, s) ==
    CHOOSE i \in MatchingAt(patterns, text, s) :
        \A j \in MatchingAt(patterns, text, s) :
            \/ Len(patterns[j]) < Len(patterns[i])
            \/ Len(patterns[j]) = Len(patterns[i]) /\ i <= j

\* automaton.find_iter(text): the matches that do not overlap, each the
\* leftmost one from the end of the match before it.  pattern counts from
\* 0, end is the offset after the match.
RECURSIVE find_iter(_, _, _)
find_iter(patterns, text, from) ==
    LET starts == {s \in from..Len(text) : MatchingAt(patterns, text, s) # {}}
    IN  IF starts = {} THEN <<>>
        ELSE LET s == CHOOSE x \in starts : \A y \in starts : x <= y
                 i == LongestAt(patterns, text, s)
                 e == s + Len(patterns[i]) - 1
             IN  <<[pattern |-> i - 1, end |-> e]>> \o find_iter(patterns, text, e + 1)

\* find_match
find_match(snips, aut, text) ==
    IF ~aut.some THEN None
    ELSE LET ms == find_iter(aut.val, text, 1)
         IN  IF ms = <<>> THEN None
             ELSE LET last_match == ms[Len(ms)]
                      pattern_idx == last_match.pattern
                  IN  IF pattern_idx + 1 > Len(snips) THEN None
                      ELSE Some(<<snips[pattern_idx + 1].trigger,
                                  snips[pattern_idx + 1].content, last_match.end>>)

\* update_snippets(list)
UpdateSnippets(list) ==
    /\ LET enabled_snippets == EnabledSnippets(list)
           patterns == [i \in 1..Len(enabled_snippets) |-> enabled_snippets[i].trigger]
       IN  /\ sm_automaton' = IF patterns # <<>> THEN Some(patterns) ELSE None
           /\ sm_snippets' = enabled_snippets
    /\ sm_list' = list
    /\ sm_found' = [called |-> FALSE, text |-> <<>>, ret |-> None]
    /\ SnippetFrame

FindMatch(text) ==
    /\ sm_found' = [called |-> TRUE, text |-> text,
                    ret |-> find_match(sm_snippets, sm_automaton, text)]
    /\ UNCHANGED <<sm_snippets, sm_automaton, sm_list>>
    /\ SnippetFrame

\* SnippetMatcher::new()
SnippetInit ==
    /\ sm_snippets = <<>>
    /\ sm_automaton = None
    /\ sm_list = <<>>
    /\ sm_found = [called |-> FALSE, text |-> <<>>, ret |-> None]

(***************************************************************************)
(* FuzzyMatcher::match_with_indices of search_engine/src/fuzzy_matcher.rs, *)
(* for queries of several words.                                           *)
(***************************************************************************)
FuzzyCandidates == Strs({"a", "b"}, MaxCandidate)

FuzzyQueries == Strs({"a", "b", " "}, MaxFuzzyQuery)

\* Pattern::parse: the atoms of the query, the words between whitespace.
parse_pattern(query) == SplitWs(query, <<>>, <<>>)

\* Pattern::indices: every atom has to match the candidate; the scores are
\* added up and the indices of each atom appended.
RECURSIVE PatternIndices(_, _, _)
PatternIndices(candidate, atoms, acc) ==
    IF atoms = <<>> THEN Some(acc)
    ELSE LET m == Indices(candidate, Head(atoms), 1, <<>>)
         IN  IF m.some
             THEN PatternIndices(candidate, Tail(atoms),
                                 [score |-> acc.score + BaseScore(candidate, Head(atoms)),
                                  indices |-> acc.indices \o m.val])
             ELSE None

\* FuzzyMatcher::match_with_indices; base is the score of the external
\* matcher, kept for the record of the call.
match_with_indices(candidate, query) ==
    LET m == PatternIndices(candidate, parse_pattern(query),
                            [score |-> 0, indices |-> <<>>])
    IN  IF m.some
        THEN Some([score |-> calculate_bonus(candidate, query, m.val.score, m.val.indices),
                   indices |-> m.val.indices, base |-> m.val.score])
        ELSE None

FuzzyInit ==
    /\ callArgs \in {[f |-> "match_with_indices", candidate |-> c, query |-> q] :
                       c \in FuzzyCandidates, q \in FuzzyQueries}
    /\ callRet = NoRet

\* One call of match_with_indices(candidate, query).
MatchWithIndices ==
    /\ callArgs.f = "match_with_indices"
    /\ ~callRet.done
    /\ callRet' = [done |-> TRUE,
                   ret |-> match_with_indices(callArgs.candidate, callArgs.query)]
    /\ UNCHANGED callArgs
    /\ CoreFrame

(***************************************************************************)
(* The action of a script item: the closure over the items of the output   *)
(* in execute_script_filter, action_manager/src/script_filter.rs.          *)
(***************************************************************************)
\* str::contains
Contains(s, p) == \E i \in 1..(Len(s) - Len(p) + 1) : SubSeq(s, i, i + Len(p) - 1) = p

CmdPrefix == <<"c", "m", "d", ":">>

SchemeSep == <<":", "/", "/">>

HttpPrefix == <<"h", "t", "t", "p">> \o SchemeSep

HttpsPrefix == <<"h", "t", "t", "p", "s">> \o SchemeSep

FilePrefix == <<"f", "i", "l", "e">> \o SchemeSep

\* The pieces the args of the model are made of.
ArgPieces == {CmdPrefix, SchemeSep, HttpPrefix, HttpsPrefix, <<"/">>, <<"~", "/">>, <<"~">>, <<"x">>}

RECURSIVE ArgsOf(_)
ArgsOf(n) == IF n = 0 THEN {<<>>} ELSE {p \o a : p \in ArgPieces, a \in ArgsOf(n - 1)}

ItemArgs == UNION {ArgsOf(n) : n \in 0..MaxArgPieces}

\* The items of a script's output: arg is an Option.
OutputItems ==
    [title : {<<"t">>}, valid : BOOLEAN, arg : {None} \cup {Some(a) : a \in ItemArgs}]

\* The action of a valid item.
item_action(item) ==
    IF item.arg.some
    THEN LET arg == item.arg.val
         IN  IF StartsWith(arg, HttpPrefix) \/ StartsWith(arg, HttpsPrefix)
                \/ Contains(arg, SchemeSep)
             THEN [tag |-> "OpenUrl", url |-> arg]
             ELSE IF StartsWith(arg, CmdPrefix)
             THEN [tag |-> "RunCommand", cmd |-> "/bin/sh",
                   args |-> <<"-c", SubSeq(arg, Len(CmdPrefix) + 1, Len(arg))>>]
             ELSE IF StartsWith(arg, <<"/">>) \/ StartsWith(arg, <<"~", "/">>)
             THEN [tag |-> "OpenUrl", url |-> FilePrefix \o arg]
             ELSE [tag |-> "OpenUrl", url |-> arg]
    ELSE [tag |-> "CopyText", text |-> item.title]

\* filter(|(_, item)| item.valid).map(..): the result of one item, if any.
item_result(item) == IF item.valid THEN Some(item_action(item)) ELSE None

ItemInit ==
    /\ callArgs \in {[f |-> "item_result", item |-> i] : i \in OutputItems}
    /\ callRet = NoRet

\* The closure applied to one item of the output.
MapItem ==
    /\ callArgs.f = "item_result"
    /\ ~callRet.done
    /\ callRet' = [done |-> TRUE, ret |-> item_result(callArgs.item)]
    /\ UNCHANGED callArgs
    /\ CoreFrame

(***************************************************************************)
(* KeywordMatcherCache under concurrent invalidate and rebuild             *)
(* (shared_utils/src/lib.rs, lines 21-44): rebuild takes three steps, the  *)
(* call of pattern_builder, the write of the automaton and the write of    *)
(* matcher_needs_rebuild.                                                  *)
(***************************************************************************)
\* The patterns pattern_builder returns for the keyword set after e changes.
PatternsAt(e) ==
    IF e = 0 THEN <<>> ELSE IF e % 2 = 1 THEN <<"g">> ELSE <<"g", "s">>

RaceFrame ==
    UNCHANGED <<coreVars, callVars, childVars, indexerVars, refreshVars, KmcRaceOthers>>

\* The owner of the keywords changes the keyword set.
KeywordsChange ==
    /\ kw_epoch < MaxEpoch
    /\ kw_epoch' = kw_epoch + 1
    /\ UNCHANGED <<inval_epoch, rb, built_epoch, kmcVars>>
    /\ RaceFrame

\* invalidate(), by another thread than the one in rebuild.
RaceInvalidate ==
    /\ matcher_needs_rebuild' = TRUE
    /\ inval_epoch' = kw_epoch
    /\ UNCHANGED <<kw_epoch, rb, built_epoch, automaton, kmcRet>>
    /\ RaceFrame

\* rebuild: let patterns = pattern_builder();
RebuildPatterns ==
    /\ rb.pc = "idle"
    /\ rb' = [pc |-> "automaton", epoch |-> kw_epoch]
    /\ UNCHANGED <<kw_epoch, inval_epoch, built_epoch, kmcVars>>
    /\ RaceFrame

\* rebuild: *self.automaton.write() = automaton;
RebuildAutomaton ==
    /\ rb.pc = "automaton"
    /\ automaton' = build_automaton_leftmost_longest(PatternsAt(rb.epoch))
    /\ built_epoch' = rb.epoch
    /\ rb' = [rb EXCEPT !.pc = "flag"]
    /\ UNCHANGED <<kw_epoch, inval_epoch, matcher_needs_rebuild, kmcRet>>
    /\ RaceFrame

\* rebuild: *self.matcher_needs_rebuild.write() = false;
RebuildFlag ==
    /\ rb.pc = "flag"
    /\ matcher_needs_rebuild' = FALSE
    /\ rb' = [rb EXCEPT !.pc = "idle"]
    /\ UNCHANGED <<kw_epoch, inval_epoch, built_epoch, automaton, kmcRet>>
    /\ RaceFrame

\* with_automaton, with f the identity; epoch and inval are history: the
\* epoch of the automaton handed out and that of the latest invalidate.
RaceWithAutomaton ==
    /\ kmcRet' = [called |-> TRUE,
                  ret |-> IF matcher_needs_rebuild THEN None ELSE automaton,
                  epoch |-> built_epoch, inval |-> inval_epoch]
    /\ UNCHANGED <<kw_epoch, inval_epoch, rb, built_epoch, automaton,
                   matcher_needs_rebuild>>
    /\ RaceFrame

\* KeywordMatcherCache::new, no thread in rebuild.
RaceInit ==
    /\ kw_epoch = 0
    /\ inval_epoch = 0
    /\ rb = [pc |-> "idle", epoch |-> 0]
    /\ built_epoch = 0

(***************************************************************************)
(* SnippetMatcher with update_snippets and find_match on two threads       *)
(* (snippet_matcher/src/lib.rs, lines 21-54): update_snippets writes the   *)
(* snippets and then the automaton; find_match reads the automaton, keeps  *)
(* its read lock, and then reads the snippets.                             *)
(***************************************************************************)
\* The lists and texts of the two threads: enabled snippets with triggers
\* of one character.
RaceLists ==
    {l \in SnippetLists : \A i \in 1..Len(l) : l[i].enabled /\ Len(l[i].trigger) = 1}

RaceTexts == {t \in SnippetTexts : Len(t) <= 2}

NotUpdating == [pc |-> "idle", enabled_snippets |-> <<>>, automaton |-> None]

NotFinding == [pc |-> "idle", text |-> <<>>, last_match |-> [pattern |-> 0, end |-> 0]]

\* update_snippets up to the automaton it has built.
UpBuild(list) ==
    /\ up.pc = "idle"
    /\ LET enabled_snippets == EnabledSnippets(list)
           patterns == [i \in 1..Len(enabled_snippets) |-> enabled_snippets[i].trigger]
       IN  up' = [pc |-> "snippets", enabled_snippets |-> enabled_snippets,
                  automaton |-> IF patterns # <<>> THEN Some(patterns) ELSE None]
    /\ sm_prev' = sm_list
    /\ sm_list' = list
    /\ UNCHANGED <<sm_snippets, sm_automaton, sm_found, fm>>
    /\ SnipRaceFrame

\* *self.snippets.write() = enabled_snippets;
UpSnippets ==
    /\ up.pc = "snippets"
    /\ sm_snippets' = up.enabled_snippets
    /\ up' = [up EXCEPT !.pc = "automaton"]
    /\ UNCHANGED <<sm_automaton, sm_list, sm_found, sm_prev, fm>>
    /\ SnipRaceFrame

\* *self.automaton.write() = automaton; it waits for the read lock of a
\* find_match to be released.
UpAutomaton ==
    /\ up.pc = "automaton"
    /\ fm.pc = "idle"
    /\ sm_automaton' = up.automaton
    /\ up' = NotUpdating
    /\ UNCHANGED <<sm_snippets, sm_list, sm_found, sm_prev, fm>>
    /\ SnipRaceFrame

\* find_match up to last_match, or to its return of None.
FmAutomaton(text) ==
    /\ fm.pc = "idle"
    /\ LET ms == IF sm_automaton.some THEN find_iter(sm_automaton.val, text, 1) ELSE <<>>
       IN  IF ms = <<>>
           THEN /\ sm_found' = [called |-> TRUE, text |-> text, ret |-> None]
                /\ UNCHANGED fm
           ELSE /\ fm' = [pc |-> "snippets", text |-> text, last_match |-> ms[Len(ms)]]
                /\ UNCHANGED sm_found
    /\ UNCHANGED <<sm_snippets, sm_automaton, sm_list, sm_prev, up>>
    /\ SnipRaceFrame

\* let snippet = self.snippets.read().get(pattern_idx)?; and the return.
FmSnippets ==
    /\ fm.pc = "snippets"
    /\ LET pattern_idx == fm.last_match.pattern
       IN  sm_found' = [called |-> TRUE, text |-> fm.text,
                        ret |-> IF pattern_idx + 1 > Len(sm_snippets) THEN None
                                ELSE Some(<<sm_snippets[pattern_idx + 1].trigger,
                                            sm_snippets[pattern_idx + 1].content,
                                            fm.last_match.end>>)]
    /\ fm' = NotFinding
    /\ UNCHANGED <<sm_snippets, sm_automaton, sm_list, sm_prev, up>>
    /\ SnipRaceFrame

\* No thread is in update_snippets or find_match.
SnipRaceInit ==
    /\ sm_prev = <<>>
    /\ up = NotUpdating
    /\ fm = NotFinding
(***************************************************************************)
(* ActionManager::add, update, remove and toggle as the two steps they     *)
(* are: the call of the store (its lock, its vector, its save), and then   *)
(* the write of self.actions under a lock of its own.                      *)
(***************************************************************************)
AmThreads == {1, 2}

\* The actions the threads add and update with.
AmActions == {a \in Actions : a.kind.tag = "QuickLink"}

AmCalls ==
    [op : {"add", "update"}, a : AmActions]
        \cup [op : {"remove", "toggle"}, id : ActionIds]

AmIdle == [pc |-> "idle", ret |-> Ok(TRUE)]

AmFrame ==
    UNCHANGED <<storeVars, scriptVars, searchVars, topkVars, dRet, dLast, callVars,
                kmcVars, childVars, indexerVars, refreshVars, AmOthers>>

\* What the call of the store makes of its vector, and whether it reports
\* a modification.
AmStored(items, c) ==
    CASE c.op = "add" -> [items |-> Append(items, c.a), modified |-> TRUE]
      [] c.op = "update" ->
            [items |-> ReplaceById(items, c.a),
             modified |-> PositionById(items, c.a.id) # 0]
      [] c.op = "remove" ->
            [items |-> RetainOthers(items, c.id),
             modified |-> Len(RetainOthers(items, c.id)) # Len(items)]
      [] OTHER ->
            [items |-> ToggleById(items, c.id),
             modified |-> PositionById(items, c.id) # 0]

\* What the second step makes of self.actions.
AmApplied(acts, c, modified) ==
    CASE c.op = "add" -> Append(acts, c.a)
      [] c.op = "update" -> IF modified THEN ReplaceById(acts, c.a) ELSE acts
      [] c.op = "remove" -> IF modified THEN RetainOthers(acts, c.id) ELSE acts
      [] OTHER -> IF modified THEN ToggleById(acts, c.id) ELSE acts

\* The first step of thread t: storage.add(..)? or storage.update(..)?.
\* The vector of the store changes first; a modified vector is then saved,
\* and saved names whether that save succeeds. A failed save returns from
\* the call through `?`.
AmStore(t, c, saved) ==
    LET x == AmStored(dStore, c)
    IN  /\ am[t].pc = "idle"
        /\ am_calls < MaxAmCalls
        /\ c.op = "add" => Len(dStore) < MaxActions /\ Len(actions) < MaxActions
        /\ am_calls' = am_calls + 1
        /\ dStore' = x.items
        /\ am_disk' = IF x.modified /\ saved THEN x.items ELSE am_disk
        /\ am' = [am EXCEPT ![t] =
                    IF x.modified /\ ~saved
                    THEN [pc |-> "idle", ret |-> Err("save")]
                    ELSE [pc |-> "actions", call |-> c, modified |-> x.modified]]
        /\ UNCHANGED <<actions, keyword_matcher>>
        /\ AmFrame

\* The second step of thread t: self.actions.write(), the rebuild of the
\* keyword matcher where the operation has one, and the return.
AmActionsStep(t) ==
    LET s == am[t]
    IN  /\ s.pc = "actions"
        /\ actions' = AmApplied(actions, s.call, s.modified)
        /\ keyword_matcher' =
              IF s.modified \/ s.call.op = "toggle"
              THEN rebuild_keyword_matcher(actions') ELSE keyword_matcher
        /\ am' = [am EXCEPT ![t] =
                    [pc |-> "idle",
                     ret |-> Ok(IF s.call.op = "add" THEN TRUE ELSE s.modified)]]
        /\ UNCHANGED <<dStore, am_disk, am_calls>>
        /\ AmFrame

\* ActionManager::new on a path without a file, no call begun.
AmInit ==
    /\ am = [t \in AmThreads |-> AmIdle]
    /\ am_disk = <<>>
    /\ am_calls = 0
(***************************************************************************)
(* SearchEngine::search as the steps that take and release its locks:      *)
(* check_and_invalidate_cache, the lookup under cache.write(), the read of *)
(* the Indexer and of the File Indexer, and the put under cache.write().   *)
(***************************************************************************)
SeThreads == {1, 2}

SeIdle == [pc |-> "idle"]

SeQuiet == \A t \in SeThreads : se[t].pc = "idle"

SeFrame ==
    UNCHANGED <<storeVars, scriptVars, dispVars, topkVars, callVars, kmcVars,
                childVars, indexerVars, refreshVars, SeRaceOthers>>

\* The entries of the File Indexer a search reads.
FilesRead == IF fiAttached THEN fiFiles ELSE {}

\* search: self.check_and_invalidate_cache();
SeCheck(t, query, limit) ==
    /\ se[t].pc = "idle"
    /\ query # <<>>
    /\ cache' = CheckedCache
    /\ file_indexer_generation' = IF fiAttached THEN fiGen ELSE file_indexer_generation
    /\ se' = [se EXCEPT ![t] = [pc |-> "get", query |-> query, limit |-> limit]]
    /\ UNCHANGED <<indexItems, fiFiles, fiGen, fiAttached, sOut>>
    /\ SeFrame

\* search: cache.write().get(&cache_key), and the return of a hit.
SeGet(t) ==
    LET s == se[t]
        i == LruIndex(cache, s.query)
    IN  /\ s.pc = "get"
        /\ cache' = LruGet(cache, s.query)
        /\ se' = [se EXCEPT ![t] = IF i # 0 THEN SeIdle ELSE [s EXCEPT !.pc = "compute"]]
        /\ sOut' = IF i # 0
                   THEN [query |-> s.query, limit |-> s.limit,
                         how |-> IF cache[i].fresh THEN "cached" ELSE "cached-stale",
                         dropped |-> {}, ret |-> Ok(Take(cache[i].results, s.limit))]
                   ELSE sOut
        /\ UNCHANGED <<indexItems, fiFiles, fiGen, fiAttached, file_indexer_generation>>
        /\ SeFrame

\* search: the results computed from the Indexer and get_all_files().
SeCompute(t) ==
    LET s == se[t]
    IN  /\ s.pc = "compute"
        /\ \E results \in Computed(Matches(Candidates, s.query), s.limit) :
              se' = [se EXCEPT ![t] =
                        [pc |-> "put", query |-> s.query, limit |-> s.limit,
                         results |-> results, from |-> FilesRead, at |-> fiGen]]
        /\ UNCHANGED <<searchVars>>
        /\ SeFrame

\* The cache after the put of thread state s.  History: fresh, the files
\* the results were computed from are those of the File Indexer now.
SePutCache(c, s) ==
    LET e == [key |-> s.query, results |-> s.results, fresh |-> s.from = FilesRead,
              at |-> s.at]
        i == LruIndex(c, s.query)
    IN  IF i # 0 THEN <<e>> \o LruWithout(c, i)
        ELSE IF Len(c) >= SEARCH_CACHE_SIZE
             THEN <<e>> \o SubSeq(c, 1, SEARCH_CACHE_SIZE - 1)
             ELSE <<e>> \o c

\* search: self.cache.write().put(cache_key, results.clone()), and the
\* return.
SePut(t) ==
    LET s == se[t]
    IN  /\ s.pc = "put"
        /\ cache' = SePutCache(cache, s)
        /\ sOut' = [query |-> s.query, limit |-> s.limit, how |-> "computed",
                    dropped |-> {}, ret |-> Ok(s.results)]
        /\ se' = [se EXCEPT ![t] = SeIdle]
        /\ UNCHANGED <<indexItems, fiFiles, fiGen, fiAttached, file_indexer_generation>>
        /\ SeFrame

\* set_file_indexer takes &mut self, so no search runs beside it; here it
\* is called before the first search is cached.
SeAttach ==
    /\ SeQuiet
    /\ cache = <<>>
    /\ SetFileIndexer

SeRaceInit == se = [t \in SeThreads |-> SeIdle]
(***************************************************************************)
(* FileIndexer: the acquisitions of its four parking_lot RwLocks by the    *)
(* callers of refresh_if_needed, enable, disable, update_config and        *)
(* start_indexing, by the scan thread start_indexing spawns and by the     *)
(* watcher thread.  A read guard is granted when the lock has no writer    *)
(* and no writer waits; a write guard when the lock has no guard at all.   *)
(***************************************************************************)
LkCallers == {"c1", "c2"}

LkScanner == "scan"

LkWatcher == "events"

LkThreads == LkCallers \cup {LkScanner, LkWatcher}

LkLocks == {"config", "last_scan", "index", "watcher"}

LkNone == "-"

LkOps == {"refresh_if_needed", "enable", "disable", "update_config", "start_indexing"}

\* The configurations update_config is called with, and the one of new.
LkConfigs == [enabled : BOOLEAN, directories : {"d1", "d2"}]

LkDefault == [enabled |-> FALSE, directories |-> "d1"]

LkIdle == [pc |-> "idle", want |-> LkNone, config |-> LkDefault, needs_restart |-> FALSE]

\* The thread is at position p and waits for no lock.
Running(t, p) == th[t].pc = p /\ th[t].want = LkNone

\* RwLock::read returns at once.
CanRead(l) == lk[l].writer = LkNone /\ lk[l].waiting = {}

\* RwLock::write returns at once.
CanWrite(l) == lk[l].writer = LkNone /\ \A t \in LkThreads : lk[l].readers[t] = 0

RdAcquire(L, l, t) == [L EXCEPT ![l].readers[t] = @ + 1]

\* The drop of the read guards thread t holds on l.
RdRelease(L, l, t) == [L EXCEPT ![l].readers[t] = 0]

\* RwLock::write, up to the point where the thread waits for the guards of
\* the others to be dropped.
WrRequest(L, l, t) == [L EXCEPT ![l].waiting = @ \cup {t}]

WrRelease(L, l, t) == [L EXCEPT ![l].writer = LkNone]

\* The thread moves to position p, waiting for the write guard of want.
Go(t, p, want) == [th EXCEPT ![t].pc = p, ![t].want = want]

LkSame == UNCHANGED <<lk_calls, lk_events>>

\* RwLock::write returns: the waiting thread becomes the writer.
LkGranted(t) ==
    /\ th[t].want # LkNone
    /\ CanWrite(th[t].want)
    /\ lk' = [lk EXCEPT ![th[t].want].writer = t, ![th[t].want].waiting = @ \ {t}]
    /\ th' = [th EXCEPT ![t].want = LkNone]
    /\ UNCHANGED fx
    /\ LkSame
    /\ LockFrame

\* A caller enters one of the public functions; enable and disable begin
\* with self.config.write().
LkCall(t, op, config) ==
    /\ th[t].pc = "idle"
    /\ lk_calls < MaxLockCalls
    /\ lk_calls' = lk_calls + 1
    /\ th' = [th EXCEPT ![t] =
                [pc |-> op, want |-> IF op \in {"enable", "disable"} THEN "config" ELSE LkNone,
                 config |-> config, needs_restart |-> FALSE]]
    /\ lk' = IF op \in {"enable", "disable"} THEN WrRequest(lk, "config", t) ELSE lk
    /\ UNCHANGED <<fx, lk_events>>
    /\ LockFrame

\* refresh_if_needed: the guard config lives to the end of the function,
\* the calls of scan_all_directories included.
LkRefreshIfNeeded(t) ==
    \/ /\ Running(t, "refresh_if_needed") /\ CanRead("config") /\ ~fx.enabled
       /\ th' = [th EXCEPT ![t] = LkIdle]
       /\ UNCHANGED <<lk, fx>> /\ LkSame /\ LockFrame
    \/ /\ Running(t, "refresh_if_needed") /\ CanRead("config")
       /\ fx.enabled /\ fx.needs_initial
       /\ lk' = RdAcquire(lk, "config", t)
       /\ fx' = [fx EXCEPT !.needs_initial = FALSE]
       /\ th' = Go(t, "scan_all_directories", LkNone)
       /\ LkSame /\ LockFrame
    \/ /\ Running(t, "refresh_if_needed") /\ CanRead("config")
       /\ fx.enabled /\ ~fx.needs_initial
       /\ lk' = WrRequest(RdAcquire(lk, "config", t), "last_scan", t)
       /\ th' = Go(t, "last_scan", "last_scan")
       /\ UNCHANGED fx /\ LkSame /\ LockFrame
    \/ /\ Running(t, "last_scan")
       /\ \E needs_rescan \in BOOLEAN :
             /\ lk' = IF needs_rescan THEN WrRelease(lk, "last_scan", t)
                      ELSE RdRelease(WrRelease(lk, "last_scan", t), "config", t)
             /\ th' = IF needs_rescan THEN Go(t, "scan_all_directories", LkNone)
                      ELSE [th EXCEPT ![t] = LkIdle]
       /\ UNCHANGED fx /\ LkSame /\ LockFrame

\* scan_all_directories, called by refresh_if_needed: a config.read() of
\* its own, flush_batch under index.write() when the scan found a file,
\* save under index.read(), and the return of refresh_if_needed.
LkScanAllDirectories(t) ==
    \/ /\ Running(t, "scan_all_directories") /\ CanRead("config")
       /\ \E found \in BOOLEAN :
             /\ lk' = IF found THEN WrRequest(RdAcquire(lk, "config", t), "index", t)
                      ELSE RdAcquire(lk, "config", t)
             /\ th' = IF found THEN Go(t, "flush_batch", "index") ELSE Go(t, "save", LkNone)
       /\ UNCHANGED fx /\ LkSame /\ LockFrame
    \/ /\ Running(t, "flush_batch")
       /\ lk' = WrRelease(lk, "index", t)
       /\ fx' = [fx EXCEPT !.index_empty = FALSE]
       /\ th' = Go(t, "save", LkNone)
       /\ LkSame /\ LockFrame
    \/ /\ Running(t, "save") /\ CanRead("index")
       /\ lk' = RdRelease(lk, "config", t)
       /\ th' = [th EXCEPT ![t] = LkIdle]
       /\ UNCHANGED fx /\ LkSame /\ LockFrame

\* start_indexing, up to the call of start_file_watcher.
LkStartIndexing(t) ==
    \/ /\ Running(t, "start_indexing") /\ CanRead("config")
       /\ th' = IF fx.enabled THEN Go(t, "index.is_empty", LkNone)
                ELSE [th EXCEPT ![t] = LkIdle]
       /\ UNCHANGED <<lk, fx>> /\ LkSame /\ LockFrame
    \/ /\ Running(t, "index.is_empty") /\ CanRead("index")
       /\ fx.index_empty
       /\ th[LkScanner].pc = "idle"
       /\ th' = [th EXCEPT ![t].pc = "watcher.is_none", ![LkScanner].pc = "spawned"]
       /\ UNCHANGED <<lk, fx>> /\ LkSame /\ LockFrame
    \/ /\ Running(t, "index.is_empty") /\ CanRead("index")
       /\ ~fx.index_empty
       /\ fx' = [fx EXCEPT !.needs_initial = TRUE]
       /\ th' = Go(t, "watcher.is_none", LkNone)
       /\ UNCHANGED lk /\ LkSame /\ LockFrame
    \/ /\ Running(t, "watcher.is_none") /\ CanRead("watcher")
       /\ lk' = IF fx.watcher THEN lk ELSE WrRequest(lk, "watcher", t)
       /\ th' = IF fx.watcher THEN [th EXCEPT ![t] = LkIdle]
                ELSE Go(t, "start_file_watcher", "watcher")
       /\ UNCHANGED fx /\ LkSame /\ LockFrame

\* start_file_watcher: *self.watcher.write() = Some(debouncer);
LkStartFileWatcher(t) ==
    /\ Running(t, "start_file_watcher")
    /\ lk' = WrRelease(lk, "watcher", t)
    /\ fx' = [fx EXCEPT !.watcher = TRUE]
    /\ th' = Go(t, "watch_directories", LkNone)
    /\ LkSame /\ LockFrame

\* watch_directories: config.read(), then watcher.write(), both held to
\* the end, and the return of start_indexing.
LkWatchDirectories(t) ==
    \/ /\ Running(t, "watch_directories") /\ CanRead("config")
       /\ lk' = WrRequest(RdAcquire(lk, "config", t), "watcher", t)
       /\ th' = Go(t, "watch", "watcher")
       /\ UNCHANGED fx /\ LkSame /\ LockFrame
    \/ /\ Running(t, "watch")
       /\ lk' = RdRelease(WrRelease(lk, "watcher", t), "config", t)
       /\ th' = [th EXCEPT ![t] = LkIdle]
       /\ UNCHANGED fx /\ LkSame /\ LockFrame

\* update_config, up to the call of start_indexing.
LkUpdateConfig(t) ==
    \/ /\ Running(t, "update_config") /\ CanRead("config")
       /\ lk' = WrRequest(lk, "config", t)
       /\ th' = [th EXCEPT ![t].pc = "config.write", ![t].want = "config",
                           ![t].needs_restart = fx.directories # th[t].config.directories]
       /\ UNCHANGED fx /\ LkSame /\ LockFrame
    \/ /\ Running(t, "config.write")
       /\ fx' = [fx EXCEPT !.enabled = th[t].config.enabled,
                           !.directories = th[t].config.directories]
       /\ lk' = IF th[t].needs_restart
                THEN WrRequest(WrRelease(lk, "config", t), "watcher", t)
                ELSE WrRelease(lk, "config", t)
       /\ th' = IF th[t].needs_restart THEN Go(t, "stop_file_watcher", "watcher")
                ELSE Go(t, "start_indexing", LkNone)
       /\ LkSame /\ LockFrame
    \/ /\ Running(t, "stop_file_watcher")
       /\ fx' = [fx EXCEPT !.watcher = FALSE]
       /\ lk' = WrRelease(lk, "watcher", t)
       /\ th' = Go(t, "start_indexing", LkNone)
       /\ LkSame /\ LockFrame

\* enable, up to the call of start_indexing.
LkEnable(t) ==
    /\ Running(t, "enable")
    /\ fx' = [fx EXCEPT !.enabled = TRUE]
    /\ lk' = WrRelease(lk, "config", t)
    /\ th' = Go(t, "start_indexing", LkNone)
    /\ LkSame /\ LockFrame

\* disable
LkDisable(t) ==
    \/ /\ Running(t, "disable")
       /\ fx' = [fx EXCEPT !.enabled = FALSE]
       /\ lk' = WrRequest(WrRelease(lk, "config", t), "watcher", t)
       /\ th' = Go(t, "disable.stop", "watcher")
       /\ LkSame /\ LockFrame
    \/ /\ Running(t, "disable.stop")
       /\ fx' = [fx EXCEPT !.watcher = FALSE]
       /\ lk' = WrRelease(lk, "watcher", t)
       /\ th' = Go(t, "disable.save", LkNone)
       /\ LkSame /\ LockFrame
    \/ /\ Running(t, "disable.save") /\ CanRead("index")
       /\ th' = [th EXCEPT ![t] = LkIdle]
       /\ UNCHANGED <<lk, fx>> /\ LkSame /\ LockFrame

\* The thread start_indexing spawns: config.read() held over the scan, the
\* flush under index.write(), the save under index.read().
LkScanThread ==
    \/ /\ Running(LkScanner, "spawned") /\ CanRead("config")
       /\ \E found \in BOOLEAN :
             /\ lk' = IF found THEN WrRequest(RdAcquire(lk, "config", LkScanner), "index", LkScanner)
                      ELSE RdAcquire(lk, "config", LkScanner)
             /\ th' = IF found THEN Go(LkScanner, "flush_batch", "index")
                      ELSE Go(LkScanner, "save", LkNone)
       /\ UNCHANGED fx /\ LkSame /\ LockFrame
    \/ /\ Running(LkScanner, "flush_batch")
       /\ lk' = WrRelease(lk, "index", LkScanner)
       /\ fx' = [fx EXCEPT !.index_empty = FALSE]
       /\ th' = Go(LkScanner, "save", LkNone)
       /\ LkSame /\ LockFrame
    \/ /\ Running(LkScanner, "save") /\ CanRead("index")
       /\ lk' = RdRelease(lk, "config", LkScanner)
       /\ th' = [th EXCEPT ![LkScanner] = LkIdle]
       /\ UNCHANGED fx /\ LkSame /\ LockFrame

\* The watcher thread in handle_event: config.read() held over the event,
\* index.write() for the path; a Remove may leave the index empty.
LkHandleEvent ==
    \/ /\ Running(LkWatcher, "idle") /\ CanRead("config")
       /\ fx.watcher
       /\ lk_events < MaxLockEvents
       /\ lk_events' = lk_events + 1
       /\ lk' = WrRequest(RdAcquire(lk, "config", LkWatcher), "index", LkWatcher)
       /\ th' = Go(LkWatcher, "handle_event", "index")
       /\ UNCHANGED <<fx, lk_calls>> /\ LockFrame
    \/ /\ Running(LkWatcher, "handle_event")
       /\ \E empty \in BOOLEAN : fx' = [fx EXCEPT !.index_empty = empty]
       /\ lk' = RdRelease(WrRelease(lk, "index", LkWatcher), "config", LkWatcher)
       /\ th' = [th EXCEPT ![LkWatcher] = LkIdle]
       /\ LkSame /\ LockFrame

\* The steps of a caller inside its call.
LkCallerStep(t) ==
    \/ LkGranted(t)
    \/ LkRefreshIfNeeded(t)
    \/ LkScanAllDirectories(t)
    \/ LkStartIndexing(t)
    \/ LkStartFileWatcher(t)
    \/ LkWatchDirectories(t)
    \/ LkUpdateConfig(t)
    \/ LkEnable(t)
    \/ LkDisable(t)

\* FileIndexer::new with the default configuration and no stored index.
LockInit ==
    /\ lk = [l \in LkLocks |->
               [readers |-> [t \in LkThreads |-> 0], writer |-> LkNone, waiting |-> {}]]
    /\ th = [t \in LkThreads |-> LkIdle]
    /\ fx = [enabled |-> FALSE, directories |-> "d1", needs_initial |-> TRUE,
             index_empty |-> TRUE, watcher |-> FALSE]
    /\ lk_calls = 0
    /\ lk_events = 0

(***************************************************************************)
(* Specifications.                                                         *)
(***************************************************************************)
CoreInit == StoreInit /\ ScriptInit /\ DispInit /\ SearchInit

\* The later subsystems, as constructed.
LastInit == RaceInit /\ SnipRaceInit /\ AmInit /\ SeRaceInit /\ LockInit

MoreInit == WatchInit /\ ScanIdle /\ SnippetInit /\ LastInit

LaterInit == KmcInit /\ ChildIdle /\ IndexerInit /\ RefreshInit /\ MoreInit

Init == CoreInit /\ TopKIdle /\ CallIdle /\ LaterInit

\* Concurrent clients of one RkyvStorage and its writer thread.
SpecStorage == Init /\ [][StoreNext]_vars

ScriptNext ==
    \/ \E k \in Callers, s \in ScriptPaths, d \in ExtDirs, q \in ScriptQueries,
          a \in CallerIds : ExecBegin(k, s, d, q, a)
    \/ \E k \in Callers, en \in Endings : ExecEnd(k, en)
    \/ Tick
    \/ \E f \in ScriptFiles : DeleteScript(f)
    \/ \E f \in ScriptFiles : CreateScript(f)

\* Concurrent callers of execute_script_filter.
SpecScript == Init /\ [][ScriptNext]_vars

SharedCacheNext ==
    \/ \E k \in Callers, s \in ScriptPaths, d \in ExtDirs, q \in {<<"x">>},
          a \in ActionIds : ExecBegin(k, s, d, q, a)
    \/ \E k \in Callers, en \in Endings : ExecEnd(k, en)
    \/ Tick

\* Two actions that name the same script, calling execute_script_filter.
SpecSharedCache == Init /\ [][SharedCacheNext]_vars

DispNext ==
    \/ \E a \in Actions : DAdd(a)
    \/ \E a \in Actions : DUpdate(a)
    \/ \E id \in ActionIds : DRemove(id)
    \/ \E id \in ActionIds : DToggle(id)
    \/ DImportDefaults
    \/ \E q \in Queries : DSearch(q)
    \/ Tick
    \/ \E f \in ScriptFiles : DeleteScript(f)
    \/ \E f \in ScriptFiles : CreateScript(f)

\* One client of the dispatcher, calling it sequentially.
SpecDispatcher == Init /\ [][DispNext]_vars

MatcherNext ==
    \/ \E a \in KeywordActions : DAdd(a)
    \/ \E a \in KeywordActions : DUpdate(a)
    \/ \E id \in ActionIds : DRemove(id)
    \/ \E id \in ActionIds : DToggle(id)
    \/ DImportDefaults

\* The operations that change the collection, native extensions included.
SpecMatcher == Init /\ [][MatcherNext]_vars

SearchNext ==
    \/ \E l \in Limits : SearchEmpty(l)
    \/ \E q \in SearchQueries, l \in Limits : Search(q, l)
    \/ \E item \in ItemCatalogue : IndexerAdd(item)
    \/ \E item \in ItemCatalogue : IndexerRemove(item.id)
    \/ \E f \in FileCatalogue : FileUpsert(f)
    \/ \E f \in FileCatalogue : FileRemove(f)
    \/ SetFileIndexer

\* One client of the search engine, and the File Indexer's event handler.
SpecSearch == Init /\ [][SearchNext]_vars

TopKNext ==
    \/ TkStart
    \/ TkHeapVisit
    \/ TkHeapSort
    \/ TkVecCollect
    \/ TkVecPush
    \/ TkVecSelect
    \/ TkVecSort

\* One uncached search, for every input of the model.
InitTopK == CoreInit /\ TopKInit /\ CallIdle /\ LaterInit

SpecTopK == InitTopK /\ [][TopKNext]_vars


\* One call of match_pattern, for every pattern and input of the model.
InitPattern == CoreInit /\ TopKIdle /\ PatternInit /\ LaterInit

PatternNext == MatchPattern

SpecPattern == InitPattern /\ [][PatternNext]_vars

\* One call of match_quick_link, for every query and keyword of the model.
InitKeyword == CoreInit /\ TopKIdle /\ KeywordInit /\ LaterInit

KeywordNext == MatchQuickLink

SpecKeyword == InitKeyword /\ [][KeywordNext]_vars

KmcNext ==
    \/ \E a \in Actions : DAdd(a)
    \/ \E a \in Actions : DUpdate(a)
    \/ \E id \in ActionIds : DRemove(id)
    \/ \E id \in ActionIds : DToggle(id)
    \/ KmcInvalidate
    \/ \E ps \in KmcPatterns : KmcRebuild(ps)
    \/ KmcWithAutomaton

\* A KeywordMatcherCache and an ActionManager in one process.
SpecKeywordCache == Init /\ [][KmcNext]_vars

ChildNext ==
    \/ ChildExits
    \/ DaemonExits
    \/ WaitSome
    \/ WaitNone
    \/ Kill
    \/ WaitKilled
    \/ ReadToEnd
    \/ ChildTick

\* One call of execute_script_filter that has spawned its child, for every
\* script of the model.
InitChild ==
    CoreInit /\ TopKIdle /\ CallIdle /\ KmcInit /\ ChildInit /\ IndexerInit
        /\ RefreshInit /\ MoreInit

SpecChild == InitChild /\ [][ChildNext]_vars

ArchiveNext ==
    \/ \E v \in ArchiveVecs : SaveToDiskOpen(v)
    \/ SaveToDiskWrite
    \/ SaveToDiskRename
    \/ LoadFromDisk
    \/ \E b \in FoundBytes : FoundAtPath(b)
    \/ \E b \in StaleBytes : FoundAtTmp(b)

\* One thread saving to and loading from one path.
SpecArchive == Init /\ [][ArchiveNext]_vars

IndexerNext ==
    \/ \E item \in IndexedItems : IxAddItem(item)
    \/ \E its \in Strs(IndexedItems, MaxLen) : IxAddItems(its)
    \/ \E id \in Items : IxRemoveItem(id)
    \/ \E ids \in Strs(Items, MaxLen) : IxRemoveItems(ids)
    \/ \E item_type \in ItemTypes : IxClearByType(item_type)
    \/ IxClear

SpecIndexer == Init /\ [][IndexerNext]_vars

RefreshNext ==
    \/ refresh_if_needed
    \/ \E index_empty \in BOOLEAN : Enable(index_empty)
    \/ Disable
    \/ \E r \in Roots : Touch(r)
    \/ \E r \in Roots : RemoveRoot(r)
    \/ \E r \in Roots : CreateRoot(r)

SpecRefresh == Init /\ [][RefreshNext]_vars

WatchNext ==
    \/ \E ev \in WatchEvents : HandleEvent(ev)
    \/ ScanStart
    \/ \E path \in WatchPaths : ScanFlush(path)
    \/ ScanDone
    \/ Observe
    \/ \E path \in WatchPaths, to \in {"absent", "file", "dir"} : DiskChange(path, to)

\* One FileIndexer with its watcher thread, a scanning thread, a consumer
\* and a changing disk.
SpecWatcher == Init /\ [][WatchNext]_vars

ScanNext ==
    \/ ScanPop
    \/ ScanLoopEnds

InitScan ==
    CoreInit /\ TopKIdle /\ CallIdle /\ KmcInit /\ ChildIdle /\ IndexerInit
        /\ RefreshInit /\ WatchInit /\ ScanInit /\ SnippetInit /\ LastInit

\* One scan_directory over the tree, for every configuration of the model
\* and every order of the directory entries.
SpecScan == InitScan /\ [][ScanNext]_vars

SnippetNext ==
    \/ \E list \in SnippetLists : UpdateSnippets(list)
    \/ \E text \in SnippetTexts : FindMatch(text)

SpecSnippets == Init /\ [][SnippetNext]_vars

\* One call of match_with_indices, for every candidate and query of the model.
InitFuzzy == CoreInit /\ TopKIdle /\ FuzzyInit /\ LaterInit

FuzzyNext == MatchWithIndices

SpecFuzzy == InitFuzzy /\ [][FuzzyNext]_vars

\* The closure of execute_script_filter on one item, for every item of the model.
InitItem == CoreInit /\ TopKIdle /\ ItemInit /\ LaterInit

ItemNext == MapItem

SpecItem == InitItem /\ [][ItemNext]_vars

KmcRaceNext ==
    \/ KeywordsChange
    \/ RaceInvalidate
    \/ RebuildPatterns
    \/ RebuildAutomaton
    \/ RebuildFlag
    \/ RaceWithAutomaton

\* A thread in rebuild, and others that change the keywords, invalidate and
\* read the automaton.
SpecKmcRace == Init /\ [][KmcRaceNext]_vars

SnipRaceNext ==
    \/ \E list \in RaceLists : UpBuild(list)
    \/ UpSnippets
    \/ UpAutomaton
    \/ \E text \in RaceTexts : FmAutomaton(text)
    \/ FmSnippets

\* One thread that calls update_snippets and one that calls find_match.
SpecSnipRace == Init /\ [][SnipRaceNext]_vars

AmRaceNext ==
    \/ \E t \in AmThreads, c \in AmCalls : AmStore(t, c, TRUE)
    \/ \E t \in AmThreads : AmActionsStep(t)

\* Two threads in add, update, remove and toggle of one ActionManager whose
\* saves all succeed.
SpecAmRace == Init /\ [][AmRaceNext]_vars

AmSaveNext ==
    \/ \E c \in AmCalls, saved \in BOOLEAN : AmStore(1, c, saved)
    \/ AmActionsStep(1)

\* One thread in add, update, remove and toggle of an ActionManager whose
\* saves may fail.
SpecAmSave == Init /\ [][AmSaveNext]_vars

SeRaceNext ==
    \/ SeAttach
    \/ \E t \in SeThreads, q \in SearchQueries : SeCheck(t, q, MaxLimit)
    \/ \E t \in SeThreads : SeGet(t)
    \/ \E t \in SeThreads : SeCompute(t)
    \/ \E t \in SeThreads : SePut(t)
    \/ \E f \in FileCatalogue : FileUpsert(f)
    \/ \E f \in FileCatalogue : FileRemove(f)

\* Two threads in search of one SearchEngine beside the watcher thread of
\* its File Indexer.
SpecSeRace == Init /\ [][SeRaceNext]_vars

LockNext ==
    \/ \E t \in LkCallers, op \in LkOps \ {"update_config"} : LkCall(t, op, LkDefault)
    \/ \E t \in LkCallers, config \in LkConfigs : LkCall(t, "update_config", config)
    \/ \E t \in LkCallers : LkCallerStep(t)
    \/ LkGranted(LkScanner)
    \/ LkScanThread
    \/ LkGranted(LkWatcher)
    \/ LkHandleEvent

\* The callers, the scan thread and the watcher thread of one FileIndexer.
SpecLocks == Init /\ [][LockNext]_vars

\* The same under a scheduler that lets every thread that can take a step
\* take one: a call that has begun goes on while a step of it is possible.
SpecLocksFair ==
    /\ SpecLocks
    /\ \A t \in LkCallers : WF_vars(LkCallerStep(t))
    /\ WF_vars(LkGranted(LkScanner) \/ LkScanThread)
    /\ WF_vars(LkGranted(LkWatcher) \/ (Running(LkWatcher, "handle_event") /\ LkHandleEvent))
(***************************************************************************)
(* Storage substrate: properties.                                          *)
(***************************************************************************)
\* The sequential meaning of a mutation e on a vector v.
SeqApply(e, v) ==
    CASE e.op = "add" -> v \o <<e.x>>
      [] e.op = "front" -> <<e.x>> \o v
      [] e.op = "clear" -> <<>>
      [] e.op = "trim" -> [i \in 1..Min2(e.x, Len(v)) |-> v[i]]
      [] e.op = "update" /\ e.f = "replace" -> [i \in 1..Len(v) |-> IF i = 1 THEN e.x ELSE v[i]]
      [] e.op = "update" /\ e.f = "retain" -> SelectSeq(v, LAMBDA y : y # e.x)
      [] OTHER -> v

\* C2: len() equals the length of the vector get_all() returns; while add(x)
\* (or add_async(x)) is the latest mutation, get_all() contains x; while
\* clear() is the latest mutation, get_all() is empty.
C2_LenAddClear ==
    /\ StoreLen = Len(GetAllValue)
    /\ lastOp.op = "add" => lastOp.x \in Range(GetAllValue)
    /\ lastOp.op = "clear" => GetAllValue = <<>>

\* An item was added and the store was then cleared, with a snapshot held.
C2_Witness ==
    /\ lastOp.op = "clear"
    /\ nOps = 2
    /\ \E v \in hist : Len(v) = 1
    /\ snaps # {}

\* C3 (as claimed): once flush() has returned after the last mutation, and
\* no write failed, the file at <path> decodes to the in-memory vector.
C3_FlushedFileIsMemory ==
    (flushed = "yes" /\ ~saveFailed) => LoadFromBytes(PathBytes) = Vec

\* C4 (as claimed): the file at <path> is absent (as before the first save)
\* or holds the complete archive of one vector the store has held, and no
\* save fails.
C4_FileIsOneWholeState ==
    /\ ~saveFailed
    /\ fsPath # 0 => \E v \in hist : ino[fsPath] = ToBytes(v)

\* C5: a snapshot returned by get_all still holds the items it held when
\* it was returned, whatever mutations the store has seen since.
C5_SnapshotUnchanged ==
    \A s \in snaps : s.buf \in DOMAIN arcs /\ arcs[s.buf] = s.seen

\* A snapshot is held while the store has moved on to other contents.
C5_Witness ==
    \E s \in snaps : s.seen # Vec /\ nOps = 2

\* C6: every step leaves the vector alone or applies exactly one mutation
\* to the whole current vector, so the vector is the result of the mutations
\* in the order of the write lock; every snapshot is a vector the store held
\* after some prefix of that order.
C6_Linearized ==
    [][/\ nOps' = nOps => arcs'[cur'] = arcs[cur]
       /\ nOps' # nOps => /\ nOps' = nOps + 1
                          /\ arcs'[cur'] = SeqApply(lastOp', arcs[cur])
       /\ \A s \in snaps' : s.seen \in hist']_vars

\* Two clients are inside their calls, each having mutated the vector, with
\* a snapshot taken in between.
C6_Witness ==
    /\ nOps = 2
    /\ pc["c1"] # "idle"
    /\ pc["c2"] # "idle"
    /\ \E s \in snaps : s.seen # Vec /\ s.seen # <<>>


(***************************************************************************)
(* Dispatcher and script filters: properties.                              *)
(***************************************************************************)
\* C1: the results of a search were all pushed by the arm of an action that
\* is enabled, and in every state the dispatcher can be in after add, update,
\* remove and toggle (a toggle that disabled a matching action included), a
\* search for any query, however its scripts end, returns no result pushed
\* for a disabled action.
C1_NoResultOfDisabled ==
    /\ dLast.op = "search" => \A n \in 1..Len(dRet) : actions[dRet[n].pos].enabled
    /\ \A q \in Queries : \A orc \in Oracles(actions, q) :
          \A r \in Range(SearchRun(q, orc).results) : actions[r.pos].enabled

\* toggle has just disabled an action whose keyword matches a query, and
\* the search for that query still has the results of another action.
C1_Witness ==
    /\ dLast.op = "toggle"
    /\ \E p \in 1..Len(actions), q \in Queries :
          /\ p = PositionById(actions, dLast.id)
          /\ ~actions[p].enabled
          /\ actions[p].kind.tag = "QuickLink"
          /\ match_quick_link(q, actions[p].kind.keyword).some
          /\ \E orc \in Oracles(actions, q) : SearchRun(q, orc).results # <<>>

\* C8 (as claimed): a call for a key whose last successful run stored its
\* results less than CACHE_TTL_MS ago returns those results and spawns
\* nothing; at CACHE_TTL_MS or later, with the script in place, it spawns
\* the script again.
C8_CachedWithinTtl ==
    [][\A k \in Callers, s \in ScriptPaths, d \in ExtDirs, q \in ScriptQueries,
          a \in CallerIds :
          (ExecBegin(k, s, d, q, a) /\ ins.some /\ cache_key(s, q) = ins.key) =>
             /\ now - ins.at < CACHE_TTL_MS =>
                   (sret'.ret = Ok(ins.results) /\ spc'[k] # "running")
             /\ (now - ins.at >= CACHE_TTL_MS /\ ResolvePath(s, d) \in files) =>
                   spc'[k] = "running"]_vars

\* C8 (amended): the same, for a key whose entry is still in the cache.
C8_CachedWithinTtlIfKept ==
    [][\A k \in Callers, s \in ScriptPaths, d \in ExtDirs, q \in ScriptQueries,
          a \in CallerIds :
          (ExecBegin(k, s, d, q, a) /\ ins.some /\ cache_key(s, q) = ins.key) =>
             /\ (now - ins.at < CACHE_TTL_MS /\ LruIndex(SCRIPT_CACHE, ins.key) # 0) =>
                   (sret'.ret = Ok(ins.results) /\ spc'[k] # "running")
             /\ (now - ins.at >= CACHE_TTL_MS /\ ResolvePath(s, d) \in files) =>
                   spc'[k] = "running"]_vars

\* A call was answered from the full cache, one tick after the results
\* were stored.
C8_Witness ==
    /\ sret.how = "cached"
    /\ sret.key = ins.key
    /\ sret.ret = Ok(ins.results)
    /\ ins.results # <<>>
    /\ now - ins.at = TickMs
    /\ Len(SCRIPT_CACHE) = SCRIPT_CACHE_SIZE

\* The results of a search that the arm of the action at position p pushed.
RowsOf(results, p) ==
    LET F[n \in 0..Len(results)] ==
            IF n = 0 THEN <<>>
            ELSE IF results[n].pos = p THEN Append(F[n - 1], results[n].r) ELSE F[n - 1]
    IN  F[Len(results)]

\* The results of a search without those of the action at position p.
RowsBut(results, p) ==
    LET F[n \in 0..Len(results)] ==
            IF n = 0 THEN <<>>
            ELSE IF results[n].pos # p THEN Append(F[n - 1], results[n]) ELSE F[n - 1]
    IN  F[Len(results)]

\* The error execute_script_filter returns for the action at position p of
\* a search for query whose script, if spawned, ends as en; None when the
\* call does not fail.  Stated for a call that finds no fresh entry in the
\* cache.
ScriptFailure(p, query, en) ==
    LET k == actions[p].kind
    IN  IF ResolvePath(k.script_path, k.extension_dir) \notin files
        THEN Some("Script not found")
        ELSE IF en.kind = "exit0" THEN None
             ELSE Some(ExecResult(en, actions[p].id).err)

\* The actions with the action at position p disabled.
Disabled(acts, p) == [acts EXCEPT ![p].enabled = FALSE]

\* C15: in a search where a script filter fails (nothing fresh is cached
\* for it and the script is missing, or is spawned and fails or times out),
\* its action has exactly one
\* result: the row titled "Script Error" with the icon
\* "exclamationmark.triangle", score 0 and the action CopyText(error), and
\* the other results are those the search returns without that action.
C15_ScriptErrorRow ==
    \A q \in Queries : \A orc \in Oracles(actions, q) : \A p \in ScriptArms(actions, q) :
        LET f == ScriptFailure(p, q, orc[p])
            out == SearchRun(q, orc).results
            key == cache_key(actions[p].kind.script_path,
                             match_quick_link(q, actions[p].kind.keyword).val)
        IN  (/\ ~check_cache(SCRIPT_CACHE, key, now).some
             /\ f.some
             /\ \A p2 \in ScriptArms(actions, q) : p2 >= p) =>
               /\ RowsOf(out, p) =
                     <<[id |-> <<actions[p].id, ":", "error">>, title |-> "Script Error",
                        subtitle |-> <<"Failed to execute: ", f.val>>,
                        icon |-> "exclamationmark.triangle", score |-> 0,
                        action |-> [tag |-> "CopyText", text |-> f.val]]>>
               /\ RowsBut(out, p) =
                     SearchFrom(Disabled(actions, p), 1, q,
                                [results |-> <<>>, cache |-> SCRIPT_CACHE, ins |-> ins],
                                orc).results

\* A search in which the script of one action times out has the error row
\* of that action and a result of another action.
C15_Witness ==
    /\ dLast.op = "search"
    /\ Len(dRet) >= 2
    /\ \E n \in 1..Len(dRet) : /\ dRet[n].r.title = "Script Error"
                                /\ dRet[n].r.action.text = "Script timed out"
    /\ \E n \in 1..Len(dRet) : dRet[n].r.title # "Script Error"

\* C17 (as claimed): a call of execute_script_filter whose resolved script
\* path does not exist returns an error and spawns nothing, whether or not
\* an earlier call for the same script path and query succeeded, and
\* stores nothing in the cache.
C17_MissingScriptIsError ==
    [][\A k \in Callers, s \in ScriptPaths, d \in ExtDirs, q \in ScriptQueries,
          a \in CallerIds :
          (ExecBegin(k, s, d, q, a) /\ ResolvePath(s, d) \notin files) =>
             /\ ~sret'.ret.ok
             /\ spc'[k] # "running"
             /\ Range(SCRIPT_CACHE') = Range(SCRIPT_CACHE)]_vars

\* C24: after any sequence of add, update, remove, toggle and
\* import_defaults, no two actions of the collection have the same id.
C24_UniqueIds ==
    \A i, j \in 1..Len(actions) : i # j => actions[i].id # actions[j].id

\* The score the conventions give a result of an action of kind k.
KindScore(k, r) ==
    CASE k.tag = "QuickLink" -> 100
      [] k.tag = "Pattern" -> 95
      [] OTHER -> IF r.title = "Script Error" THEN 0 ELSE 200

\* Every result of the search carries the score of its kind.
ScoredByKind(results) ==
    \A n \in 1..Len(results) :
        results[n].r.score = KindScore(actions[results[n].pos].kind, results[n].r)

\* C26: every result of a search carries the score of its kind (quick link
\* 100, pattern 95, script item 200, script error 0) and the returned list
\* is ordered by these scores, highest first, whatever the order in which
\* the actions were added.
C26_ScoredAndOrdered ==
    \A q \in Queries : \A orc \in Oracles(actions, q) :
        LET out == SearchRun(q, orc).results
        IN  /\ ScoredByKind(out)
            /\ \A m, n \in 1..Len(out) : m < n => out[m].r.score >= out[n].r.score

\* The keywords of the enabled actions of the collection whose kind is one
\* of tags, in the order of the collection.
KeywordsOfKinds(tags) ==
    LET F[n \in 0..Len(actions)] ==
            IF n = 0 THEN <<>>
            ELSE IF actions[n].enabled /\ actions[n].kind.tag \in tags
                 THEN Append(F[n - 1], actions[n].kind.keyword)
                 ELSE F[n - 1]
    IN  F[Len(actions)]

\* The automaton over the keywords of the enabled actions of these kinds,
\* none when there is no such keyword.
MatcherOfKinds(tags) ==
    IF KeywordsOfKinds(tags) = <<>> THEN None ELSE Some(KeywordsOfKinds(tags))

C34_ResultsOfThisAction ==
    [][\A k \in Callers, s \in ScriptPaths, d \in ExtDirs, q \in {<<"x">>},
          a \in ActionIds :
          (ExecBegin(k, s, d, q, a) /\ sret'.how = "cached") =>
             \A n \in 1..Len(sret'.ret.val) : sret'.ret.val[n].id[1] = a]_vars

AmAllReturned == \A t \in AmThreads : am[t].pc = "idle"

\* The two vectors hold the same actions, each as often, in whatever order.
SameActions(xs, ys) ==
    \A a \in AmActions :
       Cardinality({i \in 1..Len(xs) : xs[i] = a})
          = Cardinality({i \in 1..Len(ys) : ys[i] = a})

\* C31: when add, update, remove and toggle run concurrently, then once all
\* calls have returned the in-memory action list equals the contents of the
\* backing store.
C31_ListEqualsStoreWhenQuiet == AmAllReturned => SameActions(actions, dStore)

\* C33: when the synchronous save fails inside add, update, remove or
\* toggle, the call returns the error and the in-memory action list still
\* equals the backing store's in-memory contents.
C33_FailedSaveLeavesCopiesEqual ==
    (am[1].pc = "idle" /\ am[1].ret = Err("save")) => SameActions(actions, dStore)

(***************************************************************************)
(* Search engine: properties.                                              *)
(***************************************************************************)
\* The match set Search(q, l) computes from.
Found(q) == {Matches(Candidates, q)}

\* C7: a search (of a query that is not empty) that finds the generation of
\* the attached File Indexer different from the one it saw last records the
\* new generation, drops every cached list, computes its results from the
\* index as it is and leaves nothing else in the cache; and a search with a
\* File Indexer attached that answers from the cache answers with a list
\* computed at the current generation.
C7_GenerationClearsCache ==
    [][\A q \in SearchQueries, l \in Limits :
          (fiAttached /\ sOut'.query = q /\ sOut'.limit = l /\ Search(q, l)) =>
             /\ file_indexer_generation' = fiGen
             /\ fiGen # file_indexer_generation =>
                   /\ sOut'.how = "computed"
                   /\ \A ms \in Found(q) : sOut'.ret.val \in Computed(ms, l)
                   /\ \A i \in 1..Len(cache') : cache'[i].key = q /\ cache'[i].fresh
             /\ sOut'.how # "computed" => cache'[1].at = fiGen]_vars

\* A search has dropped the cached lists of both queries, its own included,
\* and computed a list that is not empty.
C7_Witness ==
    /\ sOut.how = "computed"
    /\ sOut.dropped = SearchQueries
    /\ sOut.ret.val # <<>>
    /\ fiAttached
    /\ file_indexer_generation = fiGen

Pairs(res) == [i \in 1..Len(res) |-> <<res[i].score, res[i].name>>]

\* res lists the min(limit, number of matches) greatest matches of ms under
\* (score descending, name ascending), in that order.
IsTop(res, ms, limit) ==
    /\ Len(res) = Min2(limit, Cardinality(ms))
    /\ Range(res) \subseteq ms
    /\ \A i, j \in 1..Len(res) : i # j => res[i] # res[j]
    /\ \A i, j \in 1..Len(res) : i < j => ~Before(res[j], res[i])
    /\ \A x \in ms \ Range(res) : \A i \in 1..Len(res) : ~Before(x, res[i])

\* C9: the results of an uncached search are the min(limit, matches)
\* greatest matches under (score descending, name ascending), in that
\* order, whichever strategy ran; and for the same matches and limit the
\* heap strategy and the select-nth strategy give the same list of
\* (score, name) pairs.
C9_TopK ==
    /\ tpc = "done" => IsTop(tres, tms, tlimit)
    /\ \A h \in HeapResults(tms, tlimit), v \in VecResults(tms, tlimit) :
          /\ IsTop(h, tms, tlimit)
          /\ IsTop(v, tms, tlimit)
          /\ Pairs(h) = Pairs(v)

\* A search over PARALLEL_THRESHOLD items or more has selected with
\* select_nth fewer results than there are matches, among them two matches
\* of equal score and different names.
C9_Witness ==
    /\ tpc = "done"
    /\ tmode = "par"
    /\ tlimit < Cardinality(tms)
    /\ \E x, y \in tms : x.score = y.score /\ x.name # y.name /\ x \in Range(tres)
                         /\ y \notin Range(tres)

\* C10 (as claimed): a search answered from the cache, with the index as it
\* was when the list was cached, returns a list an uncached search with the
\* same limit could return.
C10_CachedAsUncached ==
    [][\A q \in SearchQueries, l \in Limits :
          (sOut'.how = "cached" /\ sOut'.query = q /\ sOut'.limit = l /\ Search(q, l)) =>
             \A ms \in Found(q) : sOut'.ret.val \in Computed(ms, l)]_vars

\* C35: after the Indexer is changed through indexer() or the file source
\* is swapped, the next search for a query that was cached before the
\* change is not answered with the list cached before the change.
C35_NoAnswerCachedBeforeChange ==
    [][\A q \in SearchQueries, l \in Limits :
          Search(q, l) => sOut'.how # "cached-stale"]_vars

\* C32: once no search is in flight and the generation of the File Indexer
\* is the one the engine has observed, every list in the result cache was
\* computed from the file index as it is now.
C32_NoStaleListAfterInvalidation ==
    (SeQuiet /\ fiAttached /\ file_indexer_generation = fiGen)
        => \A i \in 1..Len(cache) : cache[i].fresh

(***************************************************************************)
(* Pattern and keyword matching: properties.                               *)
(***************************************************************************)
\* C11 (as claimed): whenever match_pattern(p, q) returns Some(C), the
\* expansion of p with C has the tokens of q, token by token, for every
\* pattern, also one that uses a name twice.
C11_ExpansionIsInput ==
    (callArgs.f = "match_pattern" /\ callRet.done /\ callRet.ret.some) =>
        split_whitespace(callRet.expanded) = split_whitespace(callArgs.input)

\* The input token inp, from position j, can be obtained from the pattern
\* token pat, from position i, by matching every literal character and
\* replacing every placeholder by a substring that is not empty.
RECURSIVE Fits(_, _, _, _)
Fits(pat, i, inp, j) ==
    IF i > Len(pat) THEN j = Len(inp) + 1
    ELSE IF pat[i] = "{"
         THEN LET close == Position(pat, i + 1, "}")
              IN  /\ close # 0
                  /\ \E e \in j + 1..Len(inp) + 1 : Fits(pat, close + 1, inp, e)
         ELSE j <= Len(inp) /\ pat[i] = inp[j] /\ Fits(pat, i + 1, inp, j + 1)

\* p and q have the same number of tokens and each token of q can be
\* obtained from the token of p at its place.
Obtainable(p, q) ==
    LET ps == split_whitespace(p)
        qs == split_whitespace(q)
    IN  Len(ps) = Len(qs) /\ \A k \in 1..Len(ps) : Fits(ps[k], 1, qs[k], 1)

\* C12 (as claimed): match_pattern(p, q) returns Some exactly when q can be
\* obtained from p token by token, every literal matched and every
\* placeholder replaced by a substring that is not empty.
C12_SomeIffObtainable ==
    (callArgs.f = "match_pattern" /\ callRet.done) =>
        (callRet.ret.some <=> Obtainable(callArgs.pattern, callArgs.input))

\* The part of s between its leading and its trailing whitespace, stated
\* by its two ends.
IsTrimOf(t, s) ==
    \E i \in 1..Len(s) + 1, j \in 0..Len(s) :
        /\ t = SubSeq(s, i, j)
        /\ \A k \in 1..Len(s) : (k < i \/ k > j) => IsWs(s[k])
        /\ i <= j => ~IsWs(s[i]) /\ ~IsWs(s[j])
        /\ i > j => i = Len(s) + 1 /\ j = Len(s)

\* The substrings of s.
Substrings(s) == {SubSeq(s, i, j) : i \in 1..Len(s) + 1, j \in 0..Len(s)}

\* C13: match_quick_link(query, keyword) returns Some iff the query without
\* its leading and trailing whitespace starts with the keyword and what
\* follows is empty or begins with a space or a tab, and the value is what
\* follows without its leading and trailing whitespace; a keyword that is
\* the prefix of a longer word, and a keyword that starts with whitespace
\* against a query that is not empty, give None.
C13_KeywordMatch ==
    (callArgs.f = "match_quick_link" /\ callRet.done) =>
        LET q == callArgs.query
            kw == callArgs.keyword
            r == callRet.ret
        IN  /\ r.some <=>
                  \E t \in Substrings(q) :
                     /\ IsTrimOf(t, q)
                     /\ Len(kw) <= Len(t)
                     /\ \A k \in 1..Len(kw) : t[k] = kw[k]
                     /\ Len(t) > Len(kw) => t[Len(kw) + 1] \in {" ", "\t"}
            /\ r.some => \E t \in Substrings(q) :
                           /\ IsTrimOf(t, q)
                           /\ IsTrimOf(r.val, SubSeq(t, Len(kw) + 1, Len(t)))
            /\ (kw # <<>> /\ IsWs(kw[1]) /\ q # <<>>) => ~r.some
            /\ (Len(q) > Len(kw) /\ SubSeq(q, 1, Len(kw)) = kw /\ ~IsWs(q[Len(kw) + 1]))
                  => ~r.some

\* Some was returned for a query with whitespace before the keyword and a
\* tab after it, with a value that is not empty.
C13_Witness ==
    /\ callArgs.f = "match_quick_link"
    /\ callRet.done
    /\ callRet.ret.some
    /\ callRet.ret.val # <<>>
    /\ IsWs(callArgs.query[1])
    /\ \E k \in 1..Len(callArgs.query) : callArgs.query[k] = "\t"

(***************************************************************************)
(* Keyword matcher cache: properties.                                      *)
(***************************************************************************)
\* The step is an add, update, remove or toggle of the dispatcher.
DispMutation ==
    dispVars' # dispVars /\ dLast'.op \in {"add", "update", "remove", "toggle"}

\* C14 (as claimed): needs_rebuild is true after every add, update, remove
\* and toggle of the dispatcher, stays true until rebuild is called and is
\* false after rebuild; while it is true with_automaton returns None.
C14_NeedsRebuild ==
    [][/\ DispMutation => matcher_needs_rebuild'
       /\ (matcher_needs_rebuild /\ ~matcher_needs_rebuild') =>
             \E ps \in KmcPatterns : KmcRebuild(ps)
       /\ (\E ps \in KmcPatterns : KmcRebuild(ps)) => ~matcher_needs_rebuild'
       /\ (KmcWithAutomaton /\ matcher_needs_rebuild) => ~kmcRet'.ret.some]_vars

\* C37: whenever needs_rebuild() is false, the stored automaton was built
\* from the keyword set as it was at or after the latest invalidate(), and
\* with_automaton never hands out an automaton older than the latest
\* invalidation.
C37_InvalidateNotLost ==
    /\ ~matcher_needs_rebuild => built_epoch >= inval_epoch
    /\ (kmcRet.called /\ kmcRet.ret.some /\ "epoch" \in DOMAIN kmcRet) =>
           kmcRet.epoch >= kmcRet.inval

(***************************************************************************)
(* The spawned child of execute_script_filter                              *)
(***************************************************************************)
Pending == cpc # "returned"

TimedOut == cpc = "returned" /\ cret = Err("Script timed out")

\* C16: a call of execute_script_filter that has spawned a child returns
\* when the child has exited or when the 2000 ms deadline passes, whichever
\* comes first: while the call has not returned, the deadline has not been
\* passed and no time has gone by since the child exited.  The timeout
\* error is returned at the deadline, to a child that had not exited before
\* it; after any
\* return the child is reaped; a child that wrote valid output and exited
\* with status 0 before the deadline yields Ok.
C16_ReturnsAtExitOrDeadline ==
    /\ Pending => /\ cnow <= SCRIPT_TIMEOUT_MS
                  /\ exitAt # -1 => cnow = exitAt
    /\ ~Pending => child = "reaped"
    /\ TimedOut => /\ retAt >= SCRIPT_TIMEOUT_MS
                   /\ exitAt = -1 \/ exitAt >= SCRIPT_TIMEOUT_MS
    /\ (/\ ~Pending
        /\ exitAt # -1 /\ exitAt < SCRIPT_TIMEOUT_MS
        /\ script.status = 0 /\ script.valid) => cret = Ok("results")

(***************************************************************************)
(* save_to_disk / load_from_disk                                           *)
(***************************************************************************)
\* C18: load_from_disk right after save_to_disk(path, v) has returned gives
\* Ok(v), the same items in the same order, also when the save replaced an
\* earlier one; a file of zero bytes and a file whose bytes fail the
\* validation of the archive load as Ok of the empty vector.
C18_SaveThenLoad ==
    [][LoadFromDisk =>
          /\ (callArgs.f = "save_to_disk" /\ callArgs.at = "idle") =>
                 callRet' = Ok(callArgs.v)
          /\ (fsPath # 0 /\ (PathBytes = <<>> \/ ~ValidArchive(PathBytes))) =>
                 callRet' = Ok(<<>>)]_vars

\* A second save of a full vector over an earlier one has been loaded.
C18_Witness ==
    /\ callArgs.f = "load_from_disk"
    /\ callArgs.after = "save_to_disk"
    /\ callArgs.saves = 2
    /\ Len(callArgs.v) = MaxLen
    /\ callRet = Ok(callArgs.v)

(***************************************************************************)
(* Indexer                                                                 *)
(***************************************************************************)
OfType(item_type) ==
    Cardinality({i \in DOMAIN indexer_items : indexer_items[i] = item_type})

\* C19: after any sequence of calls on the Indexer, stats() is (number of
\* items in the map, number of Application items, of File items, of
\* Snippet items).  A counter that went below zero or wrapped is none of
\* these numbers.
C19_StatsCountItems ==
    stats = <<Cardinality(DOMAIN indexer_items), OfType("Application"),
              OfType("File"), OfType("Snippet")>>

\* The part of C19 about wrapping by itself: no counter is beyond the
\* number of ids there are.
IndexerNoWrap ==
    \A i \in 1..4 : stats[i] <= Cardinality(Items)

(***************************************************************************)
(* FileIndexer::refresh_if_needed                                          *)
(***************************************************************************)
\* Some existing root has a modification time newer than the recorded one,
\* or no recorded time.
RootChanged ==
    \E r \in Roots :
        /\ dirs[r].exists
        /\ \/ ~last_scan[r].some
           \/ dirs[r].mtime > last_scan[r].t

\* C20: refresh_if_needed returns true iff a rescan ran.  Disabled, it
\* returns false and scans nothing; with needs_initial set it scans all
\* roots and clears the flag; otherwise it rescans iff some existing root
\* has a modification time newer than the one recorded in last_scan, or no
\* recorded time.
C20_RefreshIffRescan ==
    [][refresh_if_needed =>
          /\ refreshed'.ret = refreshed'.ran
          /\ ~fi_enabled => ~refreshed'.ret /\ refreshed'.scanned = {}
          /\ (fi_enabled /\ needs_initial) =>
                 /\ refreshed'.ran
                 /\ refreshed'.scanned = Existing
                 /\ ~needs_initial'
          /\ (fi_enabled /\ ~needs_initial) =>
                 /\ refreshed'.ran = RootChanged
                 /\ refreshed'.ran => refreshed'.scanned = Existing]_vars

\* A refresh has found nothing to do, with the indexer enabled, the first
\* scan done and the times of both roots recorded after a change.
C20_Witness ==
    /\ refreshed.called /\ ~refreshed.ret
    /\ fi_enabled /\ ~needs_initial
    /\ \A r \in Roots : dirs[r].exists /\ last_scan[r] = SomeTime(1)

\* C40: if a call of refresh_if_needed returned true and nothing has
\* changed on the filesystem or in the configuration since, the next call
\* returns false and runs no scan, also after the initial scan.
C40_SecondRefreshIsIdle ==
    [][(refresh_if_needed /\ refreshed.called /\ refreshed.ret /\ refreshed.saw = Seen) =>
          (~refreshed'.ret /\ ~refreshed'.ran)]_vars

(***************************************************************************)
(* FileIndexer: generation and watcher events                              *)
(***************************************************************************)
\* An operation (a watcher event, a scan) completes in this step.
Completes == handled' # handled

\* C21: the generation never decreases; an operation that has added,
\* replaced or removed an entry has increased the generation by the time
\* it completes; so a consumer that looks at generation() and at the index
\* between operations finds the index it saw before at that generation.
C21_GenerationDetectsChange ==
    [][/\ generation' >= generation
       /\ (Completes /\ index' # handled'.from.index) =>
              generation' > handled'.from.generation
       /\ (~scanning'.on /\ generation' \in DOMAIN observed') =>
              observed'[generation'] = index']_vars

\* An event has replaced the entry of a key by another path, after a
\* consumer saw the index; and a scan has completed.
C21_Witness ==
    /\ handled.op = "event"
    /\ DOMAIN handled.from.index = DOMAIN index
    /\ handled.from.index # index
    /\ handled.from.generation \in DOMAIN observed

\* The claim's words for one path of an event, written out: what is on
\* disk at the path, whether its extension is accepted, its key.
AcceptedExtension(path) ==
    path \in {<<"a", ".", "t">>, <<"A", ".", "T">>}

KeyOf(path) == IF path = <<"A", ".", "T">> THEN <<"a", ".", "t">> ELSE path

Dropped1(fi, path) ==
    LET removed == KeyOf(path) \in DOMAIN fi.index
        idx == [k \in DOMAIN fi.index \ {KeyOf(path)} |-> fi.index[k]]
    IN  [index |-> idx,
         file_count |-> IF removed THEN Cardinality(DOMAIN idx) ELSE fi.file_count,
         generation |-> IF removed THEN fi.generation + 1 ELSE fi.generation]

Upserted1(fi, path) ==
    LET idx == [k \in DOMAIN fi.index \cup {KeyOf(path)} |->
                   IF k = KeyOf(path) THEN path ELSE fi.index[k]]
    IN  [index |-> idx, file_count |-> Cardinality(DOMAIN idx),
         generation |-> fi.generation + 1]

Expected1(fi, kind, path) ==
    IF kind = "Remove" THEN Dropped1(fi, path)
    ELSE IF kind \in {"Create", "Modify"}
    THEN IF disk[path] = "absent" THEN Dropped1(fi, path)
         ELSE IF disk[path] = "file" /\ AcceptedExtension(path)
         THEN Upserted1(fi, path)
         ELSE fi
    ELSE fi

RECURSIVE ExpectedAll(_, _, _)
ExpectedAll(fi, kind, paths) ==
    IF paths = <<>> THEN fi
    ELSE ExpectedAll(Expected1(fi, kind, Head(paths)), kind, Tail(paths))

RECURSIVE DepthOf(_)
DepthOf(n) == IF n = "R" THEN 0 ELSE 1 + DepthOf(ScanTree[n].parent)

RECURSIVE Ancestors(_)
Ancestors(n) == IF n = "R" THEN {} ELSE {ScanTree[n].parent} \cup Ancestors(ScanTree[n].parent)

\* Hidden or excluded itself, or inside a hidden or an excluded directory.
Shut(n) ==
    \E m \in (Ancestors(n) \cup {n}) \ {"R"} :
        \/ m \in {"h", "g"} /\ ~sc_config.index_hidden
        \/ m = "nm"

\* The files the claim expects in the index.
Eligible ==
    {n \in {"a", "B", "h", "gx", "ny", "da", "eb", "kc"} :
        DepthOf(ScanTree[n].parent) < sc_config.max_depth /\ ~Shut(n)}

\* C29: when a scan of a root with fewer than max_files eligible files has
\* ended, every file with an accepted extension (whatever its case) in a
\* directory at depth < max_depth that is neither hidden (unless
\* index_hidden) nor excluded, nor inside such a directory, is in the
\* index, and every such directory at depth < max_depth has been read,
\* whatever the order in which the directories were visited.
C29_ScanIndexesAll ==
    (sc_pc = "done" /\ Cardinality(Eligible) < sc_config.max_files) =>
        /\ Eligible \subseteq sc_index
        /\ \A n \in {"R", "g", "nm", "d", "e", "k"} :
               (DepthOf(n) < sc_config.max_depth /\ ~Shut(n)) => n \in sc_read

\* C39: the number of entries of the index, and file_count, never exceed
\* the configured max_files.
C39_AtMostMaxFiles ==
    /\ Cardinality(sc_index) <= sc_config.max_files
    /\ sc_count <= sc_config.max_files

(***************************************************************************)
(* SnippetMatcher                                                          *)
(***************************************************************************)
\* The ends (offsets after the last character) of the occurrences in text
\* of the trigger of the snippet at place k of the last list.
EndsOf(k, text) ==
    {e \in 1..Len(text) :
        /\ e >= Len(sm_list[k].trigger)
        /\ SubSeq(text, e - Len(sm_list[k].trigger) + 1, e) = sm_list[k].trigger}

EnabledPlaces == {k \in 1..Len(sm_list) : sm_list[k].enabled}

\* C22: find_match(text) returns the rightmost occurrence of an enabled
\* trigger: match_end is the end of the last occurrence of an enabled
\* trigger in text, trigger and content are those of a snippet whose
\* trigger ends there, and the result is None only when no enabled trigger
\* occurs in text.
C22_RightmostOccurrence ==
    sm_found.called =>
        LET ends == UNION {EndsOf(k, sm_found.text) : k \in EnabledPlaces}
        IN  IF ends = {} THEN sm_found.ret = None
            ELSE /\ sm_found.ret.some
                 /\ \A e \in ends : e <= sm_found.ret.val[3]
                 /\ \E k \in EnabledPlaces :
                        /\ sm_found.ret.val[3] \in EndsOf(k, sm_found.text)
                        /\ sm_found.ret.val[1] = sm_list[k].trigger
                        /\ sm_found.ret.val[2] = sm_list[k].content

\* C23: after update_snippets(list), find_match returns None or the
\* trigger and content of a snippet that is enabled in list, and None when
\* list has no enabled snippet; the matcher holds the enabled snippets of
\* the last list and nothing of the lists before.
C23_OnlyEnabledOfLastList ==
    /\ sm_snippets = [i \in 1..Cardinality(EnabledPlaces) |->
                         sm_list[CHOOSE k \in EnabledPlaces :
                                    Cardinality({j \in EnabledPlaces : j <= k}) = i]]
    /\ sm_automaton.some => Len(sm_automaton.val) = Len(sm_snippets)
    /\ sm_found.ret.some =>
           \E k \in EnabledPlaces :
               /\ sm_found.ret.val[1] = sm_list[k].trigger
               /\ sm_found.ret.val[2] = sm_list[k].content
    /\ (sm_found.called /\ EnabledPlaces = {}) => sm_found.ret = None

\* A disabled snippet whose trigger occurs in the text, before an enabled
\* one whose trigger occurs too, and the enabled one is returned.
C23_Witness ==
    /\ Len(sm_list) = 2
    /\ ~sm_list[1].enabled /\ sm_list[2].enabled
    /\ sm_list[1].trigger # sm_list[2].trigger
    /\ sm_found.called
    /\ EndsOf(1, sm_found.text) # {}
    /\ sm_found.ret.some /\ sm_found.ret.val[2] = 2

\* The snippets of a list with this trigger and content.
HasSnippet(list, trigger, content) ==
    \E i \in 1..Len(list) :
        list[i].enabled /\ list[i].trigger = trigger /\ list[i].content = content

\* C36: a find_match that runs concurrently with update_snippets returns a
\* triple consistent with the old or the new list: the trigger returned is
\* the one that matched in the text and ends at match_end, and the content
\* is that of this trigger's snippet in one of the two lists.
C36_ConsistentTriple ==
    (sm_found.called /\ sm_found.ret.some) =>
        LET trigger == sm_found.ret.val[1]
            content == sm_found.ret.val[2]
            match_end == sm_found.ret.val[3]
        IN  /\ match_end >= Len(trigger)
            /\ SubSeq(sm_found.text, match_end - Len(trigger) + 1, match_end) = trigger
            /\ HasSnippet(sm_list, trigger, content) \/ HasSnippet(sm_prev, trigger, content)

(***************************************************************************)
(* The fuzzy score: properties.                                            *)
(***************************************************************************)
\* The bonuses of a match: exact, prefix, first character, consecutive.
BonusOf(candidate, query, indices) ==
    (IF candidate = query THEN 10000 ELSE 0)
    + (IF StartsWith(candidate, query) THEN 5000 ELSE 0)
    + (IF indices # <<>> /\ indices[1] = 0 THEN 2000 ELSE 0)
    + 100 * Cardinality({i \in 1..Len(indices) - 1 : indices[i + 1] = indices[i] + 1})

\* (len(candidate) - len(query)) * 10, clamped at 0.
ClampedPenalty(candidate, query) ==
    IF Len(candidate) > Len(query) THEN (Len(candidate) - Len(query)) * 10 ELSE 0

\* C25: for every candidate and query that match, the final score is the
\* base score plus the bonuses minus the length penalty
\* (len(candidate) - len(query)) * 10 clamped at 0, so the penalty never
\* raises the score, also when the query is longer than the candidate.
C25_PenaltyClampedAtZero ==
    (callArgs.f = "match_with_indices" /\ callRet.done /\ callRet.ret.some) =>
        LET r == callRet.ret.val
        IN  /\ r.score = r.base + BonusOf(callArgs.candidate, callArgs.query, r.indices)
                         - ClampedPenalty(callArgs.candidate, callArgs.query)
            /\ r.score <= r.base + BonusOf(callArgs.candidate, callArgs.query, r.indices)

(***************************************************************************)
(* The action of a script item: properties.                                *)
(***************************************************************************)
\* The action the rules give an arg, the first rule that applies.
ArgRule(arg) ==
    IF StartsWith(arg, CmdPrefix)
    THEN [tag |-> "RunCommand", cmd |-> "/bin/sh",
          args |-> <<"-c", SubSeq(arg, 5, Len(arg))>>]
    ELSE IF StartsWith(arg, HttpPrefix) \/ StartsWith(arg, HttpsPrefix)
            \/ Contains(arg, SchemeSep)
    THEN [tag |-> "OpenUrl", url |-> arg]
    ELSE IF StartsWith(arg, <<"/">>) \/ StartsWith(arg, <<"~", "/">>)
    THEN [tag |-> "OpenUrl", url |-> <<"f", "i", "l", "e", ":", "/", "/">> \o arg]
    ELSE [tag |-> "OpenUrl", url |-> arg]

\* C27: for a valid item, an arg that starts with cmd: yields RunCommand
\* /bin/sh -c rest; an arg that starts with http:// or https:// or contains
\* :// yields OpenUrl(arg); an arg that starts with / or ~/ yields
\* OpenUrl("file://" + arg); any other arg yields OpenUrl(arg); no arg
\* yields CopyText(title); an item with valid = false has no result.
C27_ArgMapping ==
    (callArgs.f = "item_result" /\ callRet.done) =>
        LET item == callArgs.item
        IN  IF ~item.valid THEN callRet.ret = None
            ELSE IF ~item.arg.some
                 THEN callRet.ret = Some([tag |-> "CopyText", text |-> item.title])
                 ELSE callRet.ret = Some(ArgRule(item.arg.val))

\* C38: every call of refresh_if_needed, enable, disable, update_config and
\* start_indexing that has begun eventually returns.
C38_EveryCallReturns ==
    \A t \in LkCallers : (th[t].pc # "idle") ~> (th[t].pc = "idle")
====
